---- MODULE Spec2Model ----
(***************************************************************************)
(* AshKmodify (src/main.go): a retained-mode element tree with percentage  *)
(* sizing, wrap-flow layout, a render/composite pipeline over SDL          *)
(* textures, pointer dispatch, wheel scrolling, and a plain-text editor    *)
(* built from tree mutations.                                              *)
(*                                                                         *)
(* Elements are identified by positive numbers (Go pointers); Nil = 0       *)
(* is the nil pointer.  Operators that mutate elements take the element    *)
(* map and return the new one.                                             *)
(***************************************************************************)
EXTENDS Integers, Sequences, FiniteSets, TLC

VARIABLES
    elems,                 \* element id -> Element struct
    cursor,                \* the Cursor struct: CursorElement, X, Y
    selectedElement,       \* main's selectedElement (Nil when none)
    oldMouseButtonStates,  \* main's oldMouseButtonStates [3]bool
    events,                \* events emitted by the last dispatch pass, in order
    gfx,                   \* surface accounting of the last Render call
    ret,                   \* what the last operation returned
    hist                   \* history kept for the properties

vars == <<elems, cursor, selectedElement, oldMouseButtonStates, events, gfx, ret, hist>>

\* the nil pointer
Nil == 0

\* v is evaluated once and named in F: a local variable of the code
Bind(v, F(_)) == CHOOSE r \in {F(x) : x \in {v}} : TRUE

(***************************************************************************)
(* Go int32 arithmetic.  The lengths of the layout stay far inside the     *)
(* int32 range, so their sums and products are the mathematical ones; the  *)
(* scroll offsets take a wheel delta of any int32 value, so what is        *)
(* computed from them wraps around as int32 does.                          *)
(***************************************************************************)
MaxInt32 == 2147483647

MinInt32 == (-MaxInt32) - 1

\* a + b of two int32 values
Add32(a, b) ==
    IF a > 0 /\ b > 0 /\ a > MaxInt32 - b THEN (a + MinInt32) + (b + MinInt32)
    ELSE IF a < 0 /\ b < 0 /\ a < MinInt32 - b THEN (a - MinInt32) + (b - MinInt32)
    ELSE a + b

\* a - b of two int32 values
Sub32(a, b) == Add32(a, IF b = MinInt32 THEN MinInt32 ELSE -b)

\* a + a
Twice32(a) == Add32(a, a)

\* a * 60 of an int32 value: 32a + 16a + 8a + 4a
Times60(a) ==
    Bind(Twice32(Twice32(a)), LAMBDA a4 :
    Bind(Twice32(a4), LAMBDA a8 :
    Bind(Twice32(a8), LAMBDA a16 :
    Add32(Add32(Twice32(a16), a16), Add32(a8, a4)))))


\* Go's integer division truncates toward zero
GoDiv(a, b) == IF a >= 0 THEN a \div b ELSE -((-a) \div b)

Min(a, b) == IF a < b THEN a ELSE b

Max(a, b) == IF a > b THEN a ELSE b

(***************************************************************************)
(* Content: nil, a Text or an Image.                                       *)
(***************************************************************************)
NoContent == [kind |-> "nil"]

TextContent(s, wrap) == [kind |-> "Text", Content |-> s, Wrap |-> wrap]

ImageContent(w, h) == [kind |-> "Image", W |-> w, H |-> h]

(***************************************************************************)
(* The zero value of the Element struct.                                   *)
(***************************************************************************)
NewElement ==
    [ Width |-> 0, MinWidth |-> 0, WidthPercent |-> FALSE,
      Height |-> 0, MinHeight |-> 0, HeightPercent |-> FALSE,
      MarginX |-> 0, MarginXPercent |-> FALSE,
      MarginY |-> 0, MarginYPercent |-> FALSE,
      Breaking |-> FALSE, Inline |-> FALSE,
      ScrollX |-> FALSE, ScrollPositionX |-> 0,
      ScrollY |-> FALSE, ScrollPositionY |-> 0,
      Parent |-> Nil, Children |-> <<>>,
      Content |-> NoContent,
      EventHandlers |-> <<>>,
      IsTextInput |-> FALSE,
      Selectable |-> FALSE, Selected |-> FALSE,
      MouseHovering |-> FALSE,
      MouseButtonClicks |-> <<FALSE, FALSE, FALSE>>,
      RenderingTexture |-> Nil,
      LastRenderedX |-> 0, LastRenderedY |-> 0,
      LastRenderedWidth |-> 0, LastRenderedHeight |-> 0,
      LastRenderedMarginX |-> 0, LastRenderedMarginY |-> 0,
      LastRenderedChildWidth |-> 0, LastRenderedChildHeight |-> 0 ]

\* an element with the given configured size
Sized(w, wp, h, hp) ==
    [NewElement EXCEPT !.Width = w, !.WidthPercent = wp, !.Height = h, !.HeightPercent = hp]

(***************************************************************************)
(* Sequence helpers (Go slice expressions).                                *)
(***************************************************************************)
\* s[:i] ++ s[i+1:], i 0-based
RemoveAt(s, i) == SubSeq(s, 1, i) \o SubSeq(s, i + 2, Len(s))

\* s[:i] ++ [x] ++ s[i:], i 0-based
InsertAt(s, i, x) == SubSeq(s, 1, i) \o <<x>> \o SubSeq(s, i + 1, Len(s))

\* the first 0-based index of x in s, Len(s) when absent
IndexOf(s, x) ==
    IF \E k \in 1..Len(s) : s[k] = x
    THEN (CHOOSE k \in 1..Len(s) : s[k] = x /\ \A j \in 1..(k - 1) : s[j] # x) - 1
    ELSE Len(s)

(***************************************************************************)
(* Element.ExpandedSize                                                    *)
(***************************************************************************)
RECURSIVE ExpandedSize(_, _)
\* a percentage taken of the parent's configured size instead of its resolved size
ExpandedSizeOfConfigured(el, e) ==
    IF ~el[e].WidthPercent /\ ~el[e].HeightPercent
    THEN <<el[e].Width, el[e].Height>>
    ELSE LET parent == IF el[e].Parent # Nil
                       THEN <<el[el[e].Parent].Width, el[el[e].Parent].Height>>
                       ELSE <<0, 0>>
         IN <<IF el[e].WidthPercent THEN GoDiv(el[e].Width * parent[1], 100) ELSE el[e].Width,
              IF el[e].HeightPercent THEN GoDiv(el[e].Height * parent[2], 100) ELSE el[e].Height>>

ExpandedSize(el, e) ==
    IF ~el[e].WidthPercent /\ ~el[e].HeightPercent
    THEN <<el[e].Width, el[e].Height>>
    ELSE LET parent == IF el[e].Parent # Nil
                       THEN ExpandedSize(el, el[e].Parent)
                       ELSE <<0, 0>>
             realWidth == IF el[e].WidthPercent
                          THEN GoDiv((el[e].Width * parent[1]), 100)
                          ELSE el[e].Width
             realHeight == IF el[e].HeightPercent
                           THEN GoDiv((el[e].Height * parent[2]), 100)
                           ELSE el[e].Height
         IN <<realWidth, realHeight>>

(***************************************************************************)
(* Element.AppendChild, InsertChild, SetContent, Remove                    *)
(***************************************************************************)
\* AppendChild without line 550 (e.Content = nil)
AppendChildKeepingContent(el, e, child) ==
    [el EXCEPT ![child].Parent = e, ![e].Children = Append(@, child)]

AppendChild(el, e, child) ==
    LET el1 == [el EXCEPT ![e].Content = NoContent]
        el2 == [el1 EXCEPT ![child].Parent = e]
    IN [el2 EXCEPT ![e].Children = Append(@, child)]

InsertChild(el, e, child, i) ==
    IF i >= Len(el[e].Children)
    THEN AppendChild(el, e, child)
    ELSE LET el1 == [el EXCEPT ![e].Content = NoContent]
             el2 == [el1 EXCEPT ![child].Parent = e]
         IN [el2 EXCEPT ![e].Children = InsertAt(@, i, child)]

SetContent(el, e, content) ==
    [el EXCEPT ![e].Children = <<>>, ![e].Content = content]

\* Remove without the e.Parent = nil of line 613
RemoveKeepingParent(el, e) ==
    IF el[e].Parent = Nil
    THEN el
    ELSE LET p == el[e].Parent
             i == IndexOf(el[p].Children, e)
         IN IF i < Len(el[p].Children)
            THEN [el EXCEPT ![p].Children = RemoveAt(@, i)]
            ELSE el

Remove(el, e) ==
    IF el[e].Parent = Nil
    THEN el
    ELSE LET p == el[e].Parent
             i == IndexOf(el[p].Children, e)
         IN IF i < Len(el[p].Children)
            THEN LET el1 == [el EXCEPT ![p].Children = RemoveAt(@, i)]
                 IN [el1 EXCEPT ![e].Parent = Nil]
            ELSE el

(***************************************************************************)
(* Element.Destroy.  ds threads the elements and, for each element, the    *)
(* number of times its Content.Destroy was called.  The loop over the      *)
(* children ranges over the slice as it was when the loop started: its     *)
(* length is fixed and its slots are those of the array the child list     *)
(* lives in, which child.Remove() shifts in place (append(s[:i],           *)
(* s[i+1:]...) writes s[i+1:] over s[i:] and leaves the last slot as it    *)
(* was).  arr is that array.                                               *)
(***************************************************************************)
RECURSIVE Destroy(_, _)
RECURSIVE DestroyChildren(_, _, _, _)
\* lines 191-196
DestroyChildren(ds, e, arr, i) ==
    IF i > Len(arr) THEN ds
    ELSE Bind(Destroy(ds, arr[i]), LAMBDA d :
         DestroyChildren(d, e,
                         d.el[e].Children
                            \o SubSeq(arr, Len(d.el[e].Children) + 1, Len(arr)),
                         i + 1))

\* lines 181-199
Destroy(ds, e) ==
    Bind([ds EXCEPT !.el = Remove(@, e)], LAMBDA d1 :
    Bind(IF d1.el[e].Content.kind # "nil"
         THEN [d1 EXCEPT !.destroyed[e] = @ + 1] ELSE d1, LAMBDA d2 :
    DestroyChildren(d2, e, d2.el[e].Children, 1)))

(***************************************************************************)
(* The surface provider (SDL renderer, SDL_ttf).  st is the state a Render *)
(* call threads through: the elements, every surface allocated during the  *)
(* call (tex[t] = size, live flag, number of releases), the number of      *)
(* fallible provider operations performed so far, and the operation that   *)
(* fails (failAt = 0: none fails).  Allocation succeeds for every size     *)
(* unless it is the failing operation.                                     *)
(***************************************************************************)
GlyphW == 18

GlyphH == 40

RenderState(el, failAt) == [el |-> el, tex |-> <<>>, ops |-> 0, failAt |-> failAt]

\* the next fallible provider operation returns an error
Fails(st) == st.ops + 1 = st.failAt

Tick(st) == [st EXCEPT !.ops = @ + 1]

\* CreateTexture / CreateTextureFromSurface / RenderUTF8Blended succeeded
Alloc(st, w, h) ==
    [Tick(st) EXCEPT !.tex = Append(@, [w |-> w, h |-> h, live |-> TRUE, rel |-> 0])]

\* the surface that the last Alloc created
LastAlloc(st) == Len(st.tex)

\* Texture.Destroy / Surface.Free
Release(st, t) == [st EXCEPT !.tex[t].live = FALSE, !.tex[t].rel = @ + 1]

\* return nil, err
RenderErr(st) == [st |-> st, ok |-> FALSE, t |-> Nil]

RenderOk(st, t) == [st |-> st, ok |-> TRUE, t |-> t]

\* natural size of a shaped text run: fixed-pitch glyphs, wrapped at wrapW when asked
ShapeSize(s, wrap, wrapW) ==
    LET n == Len(s)
        perLine == IF wrap /\ wrapW >= GlyphW THEN wrapW \div GlyphW ELSE Max(n, 1)
        lines == IF wrap /\ wrapW > 0 THEN Max((n + perLine - 1) \div perLine, 1) ELSE 1
    IN <<GlyphW * Min(n, perLine), GlyphH * lines>>

(***************************************************************************)
(* Text.Render and Image.Render                                            *)
(***************************************************************************)
\* Text.Render without the surface.Free() of line 97
TextRenderKeepingSurface(st, e) ==
    Bind(ShapeSize(st.el[e].Content.Content,
                   st.el[e].Content.Wrap /\ ExpandedSize(st.el, e)[1] >= 0,
                   ExpandedSize(st.el, e)[1]), LAMBDA size :
    IF Fails(st) THEN RenderErr(Tick(st))
    ELSE Bind(Alloc(st, size[1], size[2]), LAMBDA st1 :
         IF Fails(st1) THEN RenderErr(Tick(st1))
         ELSE Bind(Alloc(st1, size[1], size[2]), LAMBDA st2 :
              RenderOk(st2, LastAlloc(st2)))))

TextRender(st, e) ==
    Bind(ShapeSize(st.el[e].Content.Content,
                   st.el[e].Content.Wrap /\ ExpandedSize(st.el, e)[1] >= 0,
                   ExpandedSize(st.el, e)[1]), LAMBDA size :
    \* RenderUTF8Blended / RenderUTF8BlendedWrapped
    IF Fails(st) THEN RenderErr(Tick(st))
    ELSE Bind(Alloc(st, size[1], size[2]), LAMBDA st1 :
         \* CreateTextureFromSurface
         IF Fails(st1) THEN RenderErr(Tick(st1))
         ELSE Bind(Alloc(st1, size[1], size[2]), LAMBDA st2 :
              \* surface.Free()
              RenderOk(Release(st2, LastAlloc(st1)), LastAlloc(st2)))))

ImageRender(st, e) ==
    \* CreateTextureFromSurface
    IF Fails(st) THEN RenderErr(Tick(st))
    ELSE Bind(Alloc(st, st.el[e].Content.W, st.el[e].Content.H), LAMBDA st1 :
         RenderOk(st1, LastAlloc(st1)))

ContentRender(st, e) ==
    IF st.el[e].Content.kind = "Text" THEN TextRender(st, e) ELSE ImageRender(st, e)

(***************************************************************************)
(* Element.Render, content branch (the element holds Content)              *)
(***************************************************************************)
\* lines 246-260: the size of the element's texture; the test of the height against
\* MinHeight assigns the width
ContentTextureSize(c, realWidth, realHeight, contentWidth, contentHeight) ==
    LET w1 == IF realWidth >= 0 THEN realWidth ELSE contentWidth
        h1 == IF realHeight >= 0 THEN realHeight ELSE contentHeight
        w2 == IF w1 < c.MinWidth THEN c.MinWidth ELSE w1
    IN <<IF h1 < c.MinHeight THEN c.MinHeight ELSE w2, h1>>

RenderContentBranch(st0, e, realWidth, realHeight) ==
    Bind(ContentRender([st0 EXCEPT !.el[e].Children = <<>>], e), LAMBDA cr :
    IF ~cr.ok THEN RenderErr(cr.st)
    ELSE \* contentTexture.Query()
    IF Fails(cr.st) THEN RenderErr(Tick(cr.st))
    ELSE Bind(ContentTextureSize(cr.st.el[e], realWidth, realHeight,
                                 cr.st.tex[cr.t].w, cr.st.tex[cr.t].h), LAMBDA size :
    \* CreateTexture
    IF Fails(Tick(cr.st)) THEN RenderErr(Tick(Tick(cr.st)))
    ELSE Bind(Alloc(Tick(cr.st), size[1], size[2]), LAMBDA st2 :
    \* SetRenderTarget
    IF Fails(st2) THEN RenderErr(Tick(st2))
    ELSE \* Clear
    IF Fails(Tick(st2)) THEN RenderErr(Tick(Tick(st2)))
    ELSE \* Copy
    IF Fails(Tick(Tick(st2))) THEN RenderErr(Tick(Tick(Tick(st2))))
    ELSE \* contentTexture.Destroy()
    Bind(Release(Tick(Tick(Tick(st2))), cr.t), LAMBDA st3 :
    RenderOk([st3 EXCEPT !.el[e].LastRenderedWidth = size[1],
                         !.el[e].LastRenderedHeight = size[2]],
             LastAlloc(st2))))))

\* an inline child wraps like any other
StartsNewLineInlineToo(inline, newX, maxWidth, scrollX, prevBreaking) ==
    (newX > maxWidth /\ ~scrollX) \/ prevBreaking

(***************************************************************************)
(* Element.Render, children branch.  The first loop renders and places     *)
(* child number i (1-based) of kids; acc carries the loop's locals.        *)
(***************************************************************************)
\* a child that exactly fills the line is wrapped too
StartsNewLineWhenFull(inline, newX, maxWidth, scrollX, prevBreaking) ==
    (~inline /\ (newX >= maxWidth /\ ~scrollX)) \/ prevBreaking

\* line 329: the child starts a new line
StartsNewLine(inline, newX, maxWidth, scrollX, prevBreaking) ==
    (~inline /\ (newX > maxWidth /\ ~scrollX)) \/ prevBreaking

\* lines 315-323: a child's margin, a percentage of the container's resolved size
ResolvedMargin(margin, percent, real) ==
    IF percent THEN GoDiv(margin * real, 100) ELSE margin

\* lines 325-348: one step of the placement; acc holds currentX, currentY,
\* currentLineHeight and childWidth, the result also the child's x and y
PlaceChild(acc, wrap, width, height, marginX, marginY, scrollX, scrollY) ==
    LET currentX == IF wrap THEN 0 ELSE acc.currentX
        currentY == IF wrap THEN acc.currentY + acc.currentLineHeight ELSE acc.currentY
        lineHeight == IF wrap THEN 0 ELSE acc.currentLineHeight
        totalHeight == height + marginY
    IN [ childWidth |-> IF wrap /\ acc.currentX > acc.childWidth
                        THEN acc.currentX ELSE acc.childWidth,
         currentX |-> IF wrap THEN currentX + width ELSE acc.currentX + width + marginX,
         currentY |-> currentY,
         currentLineHeight |-> IF totalHeight > lineHeight THEN totalHeight ELSE lineHeight,
         x |-> Sub32(currentX + marginX, scrollX),
         y |-> Sub32(currentY + marginY, scrollY) ]

RECURSIVE Render(_, _)
RECURSIVE RenderPlaceLoop(_, _, _, _, _, _)
RenderPlaceLoop(e, kids, i, acc, realWidth, realHeight) ==
    IF i > Len(kids) THEN acc
    ELSE
    Bind(Render(acc.st, kids[i]), LAMBDA r :
    IF ~r.ok THEN [acc EXCEPT !.st = r.st, !.ok = FALSE]
    ELSE \* texture.Query()
    IF Fails(r.st)
    THEN [acc EXCEPT !.st = [Tick(r.st) EXCEPT !.el[kids[i]].RenderingTexture = r.t],
                     !.ok = FALSE]
    ELSE
    Bind(ResolvedMargin(r.st.el[kids[i]].MarginX, r.st.el[kids[i]].MarginXPercent, realWidth),
         LAMBDA marginX :
    Bind(ResolvedMargin(r.st.el[kids[i]].MarginY, r.st.el[kids[i]].MarginYPercent, realHeight),
         LAMBDA marginY :
    Bind(StartsNewLine(r.st.el[kids[i]].Inline,
                       acc.currentX + r.st.tex[r.t].w + marginX,
                       realWidth, r.st.el[e].ScrollX,
                       i > 1 /\ r.st.el[r.st.el[e].Children[i - 1]].Breaking), LAMBDA wrap :
    Bind(PlaceChild(acc, wrap, r.st.tex[r.t].w, r.st.tex[r.t].h, marginX, marginY,
                    r.st.el[e].ScrollPositionX, r.st.el[e].ScrollPositionY), LAMBDA p :
    Bind([Tick(r.st) EXCEPT
             !.el[kids[i]].RenderingTexture = r.t,
             !.el[kids[i]].LastRenderedMarginX = marginX,
             !.el[kids[i]].LastRenderedMarginY = marginY,
             !.el[kids[i]].LastRenderedX = p.x,
             !.el[kids[i]].LastRenderedY = p.y], LAMBDA st3 :
    RenderPlaceLoop(e, kids, i + 1,
        [st |-> st3, ok |-> TRUE, currentX |-> p.currentX, currentY |-> p.currentY,
         currentLineHeight |-> p.currentLineHeight, childWidth |-> p.childWidth],
        realWidth, realHeight)))))))

\* the second loop: blit child number i of kids onto the element's texture and release it
RECURSIVE RenderBlitLoop(_, _, _, _)
RenderBlitLoop(e, kids, i, acc) ==
    IF i > Len(kids) THEN acc
    ELSE \* child.RenderingTexture.Query()
    IF Fails(acc.st) THEN [st |-> Tick(acc.st), ok |-> FALSE]
    ELSE
    Bind([Tick(acc.st) EXCEPT
             !.el[e].ScrollPositionX = IF ~acc.st.el[e].ScrollX THEN 0 ELSE @,
             !.el[e].ScrollPositionY = IF ~acc.st.el[e].ScrollY THEN 0 ELSE @], LAMBDA st2 :
    \* renderer.Copy
    IF Fails(st2) THEN [st |-> Tick(st2), ok |-> FALSE]
    ELSE \* child.RenderingTexture.Destroy()
    Bind(Release(Tick(st2), st2.el[kids[i]].RenderingTexture), LAMBDA st3 :
    RenderBlitLoop(e, kids, i + 1, [st |-> st3, ok |-> TRUE])))

\* lines 361-375: the element's own size, from its resolved size, the extent of its
\* children and its minimums
ChildrenTextureSize(c, realWidth, realHeight, childHeight) ==
    LET y1 == IF c.Height >= 0 THEN realHeight ELSE childHeight
    IN <<IF realWidth < c.MinWidth THEN c.MinWidth ELSE realWidth,
         IF y1 < c.MinHeight THEN c.MinHeight ELSE y1>>

RenderChildrenBranch(st0, e, realWidth, realHeight) ==
    Bind(RenderPlaceLoop(e, st0.el[e].Children, 1,
             [st |-> st0, ok |-> TRUE, currentX |-> 0, currentY |-> 0,
              currentLineHeight |-> 0, childWidth |-> 0],
             realWidth, realHeight), LAMBDA p1 :
    IF ~p1.ok THEN RenderErr(p1.st)
    ELSE
    Bind([p1.st EXCEPT
             !.el[e].LastRenderedChildWidth =
                 IF p1.currentX > p1.childWidth THEN p1.currentX ELSE p1.childWidth,
             !.el[e].LastRenderedChildHeight = p1.currentY + p1.currentLineHeight],
         LAMBDA st1 :
    Bind(ChildrenTextureSize(st1.el[e], realWidth, realHeight,
                             st1.el[e].LastRenderedChildHeight), LAMBDA size :
    \* CreateTexture
    IF Fails(st1) THEN RenderErr(Tick(st1))
    ELSE
    Bind(Alloc(st1, size[1], size[2]), LAMBDA st2 :
    \* SetRenderTarget
    IF Fails(st2) THEN RenderErr(Tick(st2))
    ELSE \* Clear
    IF Fails(Tick(st2)) THEN RenderErr(Tick(Tick(st2)))
    ELSE
    Bind(RenderBlitLoop(e, st2.el[e].Children, 1, [st |-> Tick(Tick(st2)), ok |-> TRUE]),
         LAMBDA p2 :
    IF ~p2.ok THEN RenderErr(p2.st)
    ELSE RenderOk([p2.st EXCEPT !.el[e].LastRenderedWidth = size[1],
                                !.el[e].LastRenderedHeight = size[2]],
                  LastAlloc(st2)))))))

Render(st, e) ==
    Bind(ExpandedSize(st.el, e), LAMBDA size :
    IF st.el[e].Content.kind # "nil"
    THEN RenderContentBranch(st, e, size[1], size[2])
    ELSE RenderChildrenBranch(st, e, size[1], size[2]))

(***************************************************************************)
(* inBox and Element.Scroll                                                *)
(***************************************************************************)
inBox(x, y, boxX, boxY, boxW, boxH) ==
    x >= boxX /\ x < Add32(boxX, boxW) /\ y >= boxY /\ y < Add32(boxY, boxH)

\* lines 513-527: iteration i of the loop, horizontal axis, on element record c
ScrollIterX(c, i, scrollX) ==
    IF ~c.ScrollX THEN [c |-> c, scrolled |-> FALSE]
    ELSE IF Add32(c.ScrollPositionX, c.LastRenderedWidth) >= c.LastRenderedChildWidth
    THEN [c |-> [c EXCEPT !.ScrollPositionX =
                     IF c.LastRenderedChildWidth >= c.LastRenderedWidth
                     THEN c.LastRenderedChildWidth - c.LastRenderedWidth ELSE 0],
          scrolled |-> FALSE]
    ELSE IF c.ScrollPositionX <= 0
    THEN [c |-> [c EXCEPT !.ScrollPositionX = 0], scrolled |-> FALSE]
    ELSE IF i = 0
    THEN [c |-> [c EXCEPT !.ScrollPositionX = Sub32(@, Times60(scrollX))], scrolled |-> TRUE]
    ELSE [c |-> c, scrolled |-> FALSE]

\* lines 529-543: iteration i of the loop, vertical axis
ScrollIterY(c, i, scrollY) ==
    IF ~c.ScrollY THEN [c |-> c, scrolled |-> FALSE]
    ELSE IF Add32(c.ScrollPositionY, c.LastRenderedHeight) > c.LastRenderedChildHeight
    THEN [c |-> [c EXCEPT !.ScrollPositionY =
                     IF c.LastRenderedChildHeight >= c.LastRenderedHeight
                     THEN c.LastRenderedChildHeight - c.LastRenderedHeight ELSE 0],
          scrolled |-> FALSE]
    ELSE IF c.ScrollPositionY < 0
    THEN [c |-> [c EXCEPT !.ScrollPositionY = 0], scrolled |-> FALSE]
    ELSE IF i = 0
    THEN [c |-> [c EXCEPT !.ScrollPositionY = Sub32(@, Times60(scrollY))], scrolled |-> TRUE]
    ELSE [c |-> c, scrolled |-> FALSE]

\* one iteration of the loop of lines 512-544: the horizontal axis, then the vertical
ScrollIter(a, i, scrollX, scrollY) ==
    Bind(ScrollIterX(a.c, i, scrollX), LAMBDA x :
    Bind(ScrollIterY(x.c, i, scrollY), LAMBDA y :
    [c |-> y.c, scrolled |-> a.scrolled \/ x.scrolled \/ y.scrolled]))

\* lines 506-546: the three iterations
ScrollLoop(c, scrollX, scrollY) ==
    ScrollIter(ScrollIter(ScrollIter([c |-> c, scrolled |-> FALSE], 0, scrollX, scrollY),
                          1, scrollX, scrollY),
               2, scrollX, scrollY)

RECURSIVE Scroll(_, _, _, _, _, _)
\* lines 496-500: the children are asked first, in order; the first that scrolls ends it
RECURSIVE ScrollChildren(_, _, _, _, _, _, _)
ScrollChildren(el, kids, i, mouseX, mouseY, scrollX, scrollY) ==
    IF i > Len(kids) THEN [el |-> el, scrolled |-> FALSE]
    ELSE Bind(Scroll(el, kids[i], mouseX, mouseY, scrollX, scrollY), LAMBDA r :
         IF r.scrolled THEN r
         ELSE ScrollChildren(r.el, kids, i + 1, mouseX, mouseY, scrollX, scrollY))

Scroll(el, e, mouseX, mouseY, scrollX, scrollY) ==
    IF el[e].Content.kind # "nil" THEN [el |-> el, scrolled |-> FALSE]
    ELSE
    Bind(ScrollChildren(el, el[e].Children, 1, mouseX, mouseY, scrollX, scrollY), LAMBDA k :
    IF k.scrolled THEN k
    ELSE IF ~inBox(mouseX, mouseY, k.el[e].LastRenderedX, k.el[e].LastRenderedY,
                   k.el[e].LastRenderedWidth, k.el[e].LastRenderedHeight)
    THEN [el |-> k.el, scrolled |-> FALSE]
    ELSE
    Bind(ScrollLoop(k.el[e],
                    IF ~k.el[e].ScrollY
                       \/ k.el[e].LastRenderedHeight >= k.el[e].LastRenderedChildHeight
                    THEN scrollY ELSE scrollX,
                    scrollY), LAMBDA r :
    [el |-> [k.el EXCEPT ![e] = r.c], scrolled |-> r.scrolled]))

(***************************************************************************)
(* The text editor: newLineElement, newCharElement, writeChar, the arrow   *)
(* keys and the two click handlers.  They act on the dispatch record ms    *)
(* (its fields el, cursor and panic); a is the text editing area, whose    *)
(* children are the rows.  An element made by the editor takes the least   *)
(* id that nothing refers to.  Bytes are named: "\\b", "\\x7F", "\\n", and *)
(* a letter for any other byte.                                            *)
(***************************************************************************)
RECURSIVE InTree(_, _)
\* the elements of the tree under e
InTree(el, e) ==
    {e} \cup UNION {InTree(el, el[e].Children[i]) : i \in 1..Len(el[e].Children)}

\* the ids that neither the tree under the root nor the cursor refers to
FreeIds(el, cur) == DOMAIN el \ (InTree(el, 1) \cup {cur.CursorElement})

NewId(ms) == CHOOSE n \in FreeIds(ms.el, ms.cursor) : \A m \in FreeIds(ms.el, ms.cursor) : n <= m

RECURSIVE Preorder(_, _)
RECURSIVE PreorderOf(_, _, _)
PreorderOf(el, kids, i) ==
    IF i > Len(kids) THEN <<>> ELSE Preorder(el, kids[i]) \o PreorderOf(el, kids, i + 1)

\* the elements of the tree under e, parents first, children in order
Preorder(el, e) == <<e>> \o PreorderOf(el, el[e].Children, 1)

\* An id is the name of a pointer and nothing depends on which name it is:
\* after an event the elements the editor has made (ids from 7 on; main makes
\* elements 1 to 6) are named in the order of the tree, and an element nothing
\* refers to is gone.
Collect(el, cur) ==
    LET order == SelectSeq(Preorder(el, 1), LAMBDA e : e > 6)
        name(e) == IF e <= 6 THEN e ELSE 7 + IndexOf(order, e)
        renamed(r) == [r EXCEPT !.Parent = name(@),
                                !.Children = [i \in 1..Len(@) |-> name(@[i])]]
    IN [n \in DOMAIN el |->
           IF n <= 6 THEN renamed(el[n])
           ELSE IF n - 6 <= Len(order) THEN renamed(el[order[n - 6]])
           ELSE NewElement]

\* line 668, string(c): the string of the one code point whose number is the
\* byte c; for an ASCII byte that is the byte itself, for a byte from 0x80 on
\* (here 0xE9) a string of two bytes
StringOfByte(c) == IF c = "\\xE9" THEN "U+00E9" ELSE c

newCharElement(c, a) ==
    [Sized(-1, FALSE, -1, FALSE) EXCEPT
        !.EventHandlers = <<[kind |-> "char", area |-> a]>>,
        !.Content = TextContent(StringOfByte(c), FALSE)]

newLineElement(a) ==
    [Sized(100, TRUE, -1, FALSE) EXCEPT
        !.MinHeight = 40,
        !.EventHandlers = <<[kind |-> "line", area |-> a]>>]

\* textEditingArea.Children[y]
Row(ms, a, y) == ms.el[a].Children[y + 1]

\* cursor.CursorElement.Remove()
CursorRemoved(ms) == [ms EXCEPT !.el = Remove(@, ms.cursor.CursorElement)]

\* for len(from.Children) > i { child := from.Children[i]; child.Remove(); to.AppendChild(child) }
\* (a Remove that leaves the list as long as it was makes the loop run for ever)
RECURSIVE MoveChildren(_, _, _, _)
MoveChildren(ms, from, i, to) ==
    IF Len(ms.el[from].Children) <= i THEN ms
    ELSE Bind(ms.el[from].Children[i + 1], LAMBDA child :
         Bind(Remove(ms.el, child), LAMBDA el1 :
         IF Len(el1[from].Children) >= Len(ms.el[from].Children)
         THEN [ms EXCEPT !.panic = TRUE]
         ELSE MoveChildren([ms EXCEPT !.el = AppendChild(el1, to, child)], from, i, to)))

\* the cursor is put at the end of the merged row
MergedColumnAtEnd(length, removed) == length

\* case '\b' without the merge of rows
WriteBackspaceInRow(ms, a) ==
    IF ms.cursor.X = 0 THEN ms
    ELSE [ms EXCEPT !.el = Remove(@, ms.el[Row(ms, a, ms.cursor.Y)].Children[ms.cursor.X]),
                    !.cursor.X = @ - 1]

\* line 727: the column of the cursor after two rows were merged
MergedColumn(length, removed) == length - removed

\* case '\x7F' without the merge of rows
WriteDeleteInRow(ms, a) ==
    IF ms.cursor.X + 1 < Len(ms.el[Row(ms, a, ms.cursor.Y)].Children)
    THEN [ms EXCEPT !.el = Remove(@, ms.el[Row(ms, a, ms.cursor.Y)].Children[ms.cursor.X + 2])]
    ELSE ms

\* lines 708-733: writeChar, case '\b'
WriteBackspace(ms, a) ==
    IF ms.cursor.X = 0
    THEN IF ms.cursor.Y # 0
         THEN Bind(CursorRemoved(ms), LAMBDA s1 :
              Bind(Row(s1, a, s1.cursor.Y), LAMBDA lastRow :
              Bind(Len(s1.el[lastRow].Children), LAMBDA removed :
              Bind(MoveChildren([s1 EXCEPT !.cursor.Y = @ - 1], lastRow, 0,
                                Row(s1, a, s1.cursor.Y - 1)), LAMBDA s2 :
              IF s2.panic THEN s2
              ELSE
              Bind([s2 EXCEPT !.el = Remove(@, lastRow)], LAMBDA s3 :
              Bind(MergedColumn(Len(s3.el[Row(s3, a, s3.cursor.Y)].Children), removed),
                   LAMBDA x :
              [s3 EXCEPT !.cursor.X = x,
                         !.el = InsertChild(@, Row(s3, a, s3.cursor.Y),
                                            s3.cursor.CursorElement, x)]))))))
         ELSE ms
    ELSE [ms EXCEPT !.el = Remove(@, ms.el[Row(ms, a, ms.cursor.Y)].Children[ms.cursor.X]),
                    !.cursor.X = @ - 1]

\* case '\n' with the new row put after the last row
WriteNewlineAtEnd(ms, a) ==
    Bind(NewId(ms), LAMBDA line :
    Bind([ms EXCEPT !.el = AppendChild([@ EXCEPT ![line] = newLineElement(a)], a, line)],
         LAMBDA s1 :
    Bind(MoveChildren(s1, Row(s1, a, s1.cursor.Y), s1.cursor.X, line), LAMBDA s2 :
    IF s2.panic THEN s2
    ELSE [s2 EXCEPT !.el = InsertChild(Remove(@, s2.cursor.CursorElement), line,
                                       s2.cursor.CursorElement, 0),
                    !.cursor.Y = @ + 1,
                    !.cursor.X = 0])))

\* lines 734-747: writeChar, case '\x7F'
WriteDelete(ms, a) ==
    IF ms.cursor.X + 1 < Len(ms.el[Row(ms, a, ms.cursor.Y)].Children)
    THEN [ms EXCEPT !.el = Remove(@, ms.el[Row(ms, a, ms.cursor.Y)].Children[ms.cursor.X + 2])]
    ELSE IF ms.cursor.Y + 1 < Len(ms.el[a].Children)
    THEN Bind(Row(ms, a, ms.cursor.Y + 1), LAMBDA nextRow :
         Bind(MoveChildren(ms, nextRow, 0, Row(ms, a, ms.cursor.Y)), LAMBDA s2 :
         IF s2.panic THEN s2 ELSE [s2 EXCEPT !.el = Remove(@, nextRow)]))
    ELSE ms

\* any other byte, the character put in front of the cursor's neighbour
WriteLetterBehind(ms, a, c) ==
    Bind(NewId(ms), LAMBDA char :
    [ms EXCEPT !.el = InsertChild([@ EXCEPT ![char] = newCharElement(c, a)],
                                  Row(ms, a, ms.cursor.Y), char, ms.cursor.X + 1),
               !.cursor.X = @ + 1])

\* lines 748-761: writeChar, case '\n'
WriteNewline(ms, a) ==
    Bind(NewId(ms), LAMBDA line :
    Bind([ms EXCEPT !.el = InsertChild([@ EXCEPT ![line] = newLineElement(a)],
                                       a, line, ms.cursor.Y + 1)], LAMBDA s1 :
    Bind(MoveChildren(s1, Row(s1, a, s1.cursor.Y), s1.cursor.X, line), LAMBDA s2 :
    IF s2.panic THEN s2
    ELSE [s2 EXCEPT !.el = InsertChild(Remove(@, s2.cursor.CursorElement), line,
                                       s2.cursor.CursorElement, 0),
                    !.cursor.Y = @ + 1,
                    !.cursor.X = 0])))

\* lines 762-765: writeChar, any other byte
WriteLetter(ms, a, c) ==
    Bind(NewId(ms), LAMBDA char :
    [ms EXCEPT !.el = InsertChild([@ EXCEPT ![char] = newCharElement(c, a)],
                                  Row(ms, a, ms.cursor.Y), char, ms.cursor.X),
               !.cursor.X = @ + 1])

\* an index of writeChar or of the arrow-key handler is out of range: the
\* program panics
IndexOutOfRange(ms, a, c) ==
    \/ ms.cursor.Y < 0 \/ ms.cursor.Y >= Len(ms.el[a].Children)
    \/ ms.cursor.X < 0
    \/ /\ c = "\\b" /\ ms.cursor.X # 0
       /\ ms.cursor.X > Len(ms.el[Row(ms, a, ms.cursor.Y)].Children)

\* an arrow key that never leaves the row
ArrowCursorInRow(el, a, cur, code) ==
    IF code = "K_RIGHT" /\ cur.X < Len(el[el[a].Children[cur.Y + 1]].Children)
    THEN [cur EXCEPT !.X = @ + 1]
    ELSE IF code = "K_LEFT" /\ cur.X > 0
    THEN [cur EXCEPT !.X = @ - 1]
    ELSE cur

\* lines 706-766
writeChar(ms, a, c) ==
    IF IndexOutOfRange(ms, a, c) THEN [ms EXCEPT !.panic = TRUE]
    ELSE IF c = "\\b" THEN WriteBackspace(ms, a)
    ELSE IF c = "\\x7F" THEN WriteDelete(ms, a)
    ELSE IF c = "\\n" THEN WriteNewline(ms, a)
    ELSE WriteLetter(ms, a, c)

\* main lines 928-953: where an arrow key takes the cursor, the cursor element removed
ArrowCursor(el, a, cur, code) ==
    IF code = "K_RIGHT"
    THEN IF cur.X < Len(el[el[a].Children[cur.Y + 1]].Children)
         THEN [cur EXCEPT !.X = @ + 1]
         ELSE IF cur.Y + 1 < Len(el[a].Children)
         THEN [cur EXCEPT !.Y = @ + 1, !.X = 0]
         ELSE cur
    ELSE IF code = "K_LEFT"
    THEN IF cur.X > 0
         THEN [cur EXCEPT !.X = @ - 1]
         ELSE IF cur.Y > 0
         THEN [cur EXCEPT !.Y = @ - 1, !.X = Len(el[el[a].Children[cur.Y]].Children)]
         ELSE cur
    ELSE IF code = "K_UP"
    THEN IF cur.Y > 0
         THEN [cur EXCEPT !.Y = @ - 1,
                          !.X = Min(cur.X, Len(el[el[a].Children[cur.Y]].Children))]
         ELSE cur
    ELSE IF cur.Y + 1 < Len(el[a].Children)
         THEN [cur EXCEPT !.Y = @ + 1,
                          !.X = Min(cur.X, Len(el[el[a].Children[cur.Y + 2]].Children))]
         ELSE cur

\* main lines 925-956: an arrow key
ArrowKey(ms, a, code) ==
    IF IndexOutOfRange(ms, a, code) THEN [ms EXCEPT !.panic = TRUE]
    ELSE Bind(CursorRemoved(ms), LAMBDA s1 :
         Bind(ArrowCursor(s1.el, a, s1.cursor, code), LAMBDA cur :
         [s1 EXCEPT !.cursor = cur,
                    !.el = InsertChild(@, s1.el[a].Children[cur.Y + 1],
                                       cur.CursorElement, cur.X)]))

\* lines 648-665: the handler of character element e is given ButtonDown(0);
\* the rows from row y on are searched
RECURSIVE CharClicked(_, _, _, _)
CharClicked(ms, a, e, y) ==
    IF y >= Len(ms.el[a].Children) THEN ms
    ELSE Bind(Row(ms, a, y), LAMBDA row :
         Bind(IndexOf(ms.el[row].Children, e), LAMBDA x :
         IF x < Len(ms.el[row].Children)
         THEN CharClicked(
                  [ms EXCEPT !.el = InsertChild(Remove(@, ms.cursor.CursorElement), row,
                                                ms.cursor.CursorElement, x + 1),
                             !.cursor.X = x + 1,
                             !.cursor.Y = y],
                  a, e, y + 1)
         ELSE CharClicked(ms, a, e, y + 1)))

\* lines 686-701: the handler of row e is given ButtonDown(0)
LineClicked(ms, a, e) ==
    Bind(IndexOf(ms.el[a].Children, e), LAMBDA y :
    IF y >= Len(ms.el[a].Children) THEN ms
    ELSE Bind(CursorRemoved(ms), LAMBDA s1 :
         [s1 EXCEPT !.cursor.X = Len(s1.el[e].Children),
                    !.cursor.Y = y,
                    !.el = InsertChild(@, e, s1.cursor.CursorElement,
                                       Len(s1.el[e].Children))]))

(***************************************************************************)
(* Events, handlers, Element.Emit, Element.MouseUpdate and                 *)
(* Element.DeselectAll.  A dispatch threads ms: the elements, the cursor,  *)
(* *selected, the events the recording handlers have seen, and the set of  *)
(* elements MouseUpdate was called on with overMe true.                    *)
(***************************************************************************)
MouseHoverEvent(on) ==
    [event |-> "MouseHoverEvent", Type |-> IF on THEN "Enter" ELSE "Leave", Button |-> -1]

MouseButtonEvent(type, button) ==
    [event |-> "MouseButtonEvent", Type |-> type, Button |-> button]

KeyEvent(type, code) == [event |-> "KeyEvent", Type |-> type, Code |-> code]

TextEvent(c) == [event |-> "TextEvent", c |-> c]

\* the handler that records what it is given
LogHandler == [kind |-> "log"]

\* handler number n of an element, which records what it is given
TagHandler(n) == [kind |-> "tag", tag |-> n]

Dispatch(el, cur, selected) ==
    [el |-> el, cursor |-> cur, selected |-> selected, events |-> <<>>, over |-> {},
     panic |-> FALSE]

\* main lines 912-959: the handler of the text editing area e
AreaHandler(ms, e, event) ==
    IF event.event = "TextEvent" THEN writeChar(ms, e, event.c)
    ELSE IF event.event = "KeyEvent" /\ event.Type = "KEYDOWN"
    THEN IF event.Code = "K_RETURN" THEN writeChar(ms, e, "\\n")
         ELSE IF event.Code = "K_BACKSPACE" THEN writeChar(ms, e, "\\b")
         ELSE IF event.Code = "K_DELETE" THEN writeChar(ms, e, "\\x7F")
         ELSE IF event.Code \in {"K_RIGHT", "K_LEFT", "K_DOWN", "K_UP"}
         THEN ArrowKey(ms, e, event.Code)
         ELSE ms
    ELSE ms

\* a call of one handler of element e; a panic ends the program
Handle(ms, h, e, event) ==
    IF ms.panic THEN ms
    ELSE IF h.kind = "log" THEN [ms EXCEPT !.events = Append(@, [e |-> e, ev |-> event])]
    ELSE IF h.kind = "tag"
    THEN [ms EXCEPT !.events = Append(@, [e |-> e, ev |-> event, h |-> h.tag])]
    ELSE IF h.kind = "area" THEN AreaHandler(ms, e, event)
    ELSE IF event # MouseButtonEvent("Down", 0) THEN ms
    ELSE IF h.kind = "char" THEN CharClicked(ms, h.area, e, 0)
    ELSE IF h.kind = "line" THEN LineClicked(ms, h.area, e)
    ELSE ms

RECURSIVE EmitLoop(_, _, _, _, _)
EmitLoop(ms, e, handlers, i, event) ==
    IF i > Len(handlers) THEN ms
    ELSE EmitLoop(Handle(ms, handlers[i], e, event), e, handlers, i + 1, event)

Emit(ms, e, event) == EmitLoop(ms, e, ms.el[e].EventHandlers, 1, event)

\* the hover latch with HoverStart emitted in every pass the pointer is over the element
MouseHoverEveryPass(ms, e, overMe) ==
    IF overMe
    THEN Emit([ms EXCEPT !.el[e].MouseHovering = TRUE], e, MouseHoverEvent(TRUE))
    ELSE IF ms.el[e].MouseHovering
    THEN Emit([ms EXCEPT !.el[e].MouseHovering = FALSE], e, MouseHoverEvent(FALSE))
    ELSE ms

\* lines 442-452: the hover latch
MouseHover(ms, e, overMe) ==
    IF overMe /\ ~ms.el[e].MouseHovering
    THEN Emit([ms EXCEPT !.el[e].MouseHovering = TRUE], e, MouseHoverEvent(TRUE))
    ELSE IF ~overMe /\ ms.el[e].MouseHovering
    THEN Emit([ms EXCEPT !.el[e].MouseHovering = FALSE], e, MouseHoverEvent(FALSE))
    ELSE ms

\* lines 457-465: button b goes down over the element
MouseButtonDown(ms, e, b, oldState, newState, overMe) ==
    IF ~oldState /\ newState /\ overMe
    THEN Bind(Emit([ms EXCEPT !.el[e].MouseButtonClicks[b + 1] = TRUE], e,
                   MouseButtonEvent("Down", b)), LAMBDA s :
         IF s.el[e].Selectable THEN [s EXCEPT !.selected = e] ELSE s)
    ELSE ms

\* lines 467-469 left out: the click latch survives the pointer leaving the element
MouseButtonLeaveKeepingLatch(ms, e, b, overMe) == ms

\* button b goes up over the element, Click emitted whatever the latch
MouseButtonUpClicking(ms, e, b, oldState, newState, overMe) ==
    IF oldState /\ ~newState /\ overMe
    THEN Emit(Emit(ms, e, MouseButtonEvent("Up", b)), e, MouseButtonEvent("Click", b))
    ELSE ms

\* lines 467-469: the pointer is not over the element
MouseButtonLeave(ms, e, b, overMe) ==
    IF ~overMe THEN [ms EXCEPT !.el[e].MouseButtonClicks[b + 1] = FALSE] ELSE ms

\* lines 471-477: button b goes up over the element
MouseButtonUp(ms, e, b, oldState, newState, overMe) ==
    IF oldState /\ ~newState /\ overMe
    THEN Bind(Emit(ms, e, MouseButtonEvent("Up", b)), LAMBDA s :
         IF s.el[e].MouseButtonClicks[b + 1]
         THEN Emit(s, e, MouseButtonEvent("Click", b)) ELSE s)
    ELSE ms

\* lines 479-481: button b is up
MouseButtonReleased(ms, e, b, newState) ==
    IF ~newState THEN [ms EXCEPT !.el[e].MouseButtonClicks[b + 1] = FALSE] ELSE ms

\* lines 454-482: the loop over the three buttons, from button b on
RECURSIVE MouseButtons(_, _, _, _, _, _)
MouseButtons(ms, e, b, old, new, overMe) ==
    IF b >= Len(new) THEN ms
    ELSE MouseButtons(
             MouseButtonReleased(
                 MouseButtonUp(
                     MouseButtonLeave(
                         MouseButtonDown(ms, e, b, old[b + 1], new[b + 1], overMe),
                         e, b, overMe),
                     e, b, old[b + 1], new[b + 1], overMe),
                 e, b, new[b + 1]),
             e, b + 1, old, new, overMe)

RECURSIVE MouseUpdate(_, _, _, _, _, _, _)
\* lines 484-488: the loop over the children.  The range fixes the length n when
\* it starts and reads the slots of the list as it goes; the handlers change a
\* list in place and restore its length.
RECURSIVE MouseChildren(_, _, _, _, _, _, _, _, _)
MouseChildren(ms, e, i, n, x, y, old, new, overMe) ==
    IF i > n \/ i > Len(ms.el[e].Children) THEN ms
    ELSE Bind(ms.el[e].Children[i], LAMBDA child :
         MouseChildren(
             MouseUpdate(ms, child,
                         Sub32(x, ms.el[child].LastRenderedX),
                         Sub32(y, ms.el[child].LastRenderedY),
                         old, new,
                         overMe /\ inBox(x, y, ms.el[child].LastRenderedX,
                                         ms.el[child].LastRenderedY,
                                         ms.el[child].LastRenderedWidth,
                                         ms.el[child].LastRenderedHeight)),
             e, i + 1, n, x, y, old, new, overMe))

\* the children are visited before the element's own events are emitted
MouseUpdateChildrenFirst(ms, e, x, y, old, new, overMe) ==
    Bind(MouseChildren([ms EXCEPT !.over = IF overMe THEN @ \cup {e} ELSE @], e, 1,
                       Len(ms.el[e].Children), x, y, old, new, overMe), LAMBDA c :
    MouseButtons(MouseHover(c, e, overMe), e, 0, old, new, overMe))

MouseUpdate(ms, e, x, y, old, new, overMe) ==
    Bind(MouseHover([ms EXCEPT !.over = IF overMe THEN @ \cup {e} ELSE @], e, overMe),
         LAMBDA h :
    Bind(MouseButtons(h, e, 0, old, new, overMe), LAMBDA b :
    MouseChildren(b, e, 1, Len(b.el[e].Children), x, y, old, new, overMe)))

\* only the element itself is deselected
DeselectOne(el, e) == [el EXCEPT ![e].Selected = FALSE]

RECURSIVE DeselectAll(_, _)
RECURSIVE DeselectChildren(_, _, _)
DeselectChildren(el, kids, i) ==
    IF i > Len(kids) THEN el ELSE DeselectChildren(DeselectAll(el, kids[i]), kids, i + 1)

\* lines 590-596
DeselectAll(el, e) ==
    DeselectChildren([el EXCEPT ![e].Selected = FALSE], el[e].Children, 1)

\* main lines 1075-1080: the selection is marked again after a dispatch
Reselect(el, root, selected) ==
    Bind(DeselectAll(el, root), LAMBDA d :
    IF selected # Nil /\ d[selected].Selectable
    THEN [d EXCEPT ![selected].Selected = TRUE] ELSE d)

(***************************************************************************)
(* Values of the variables an operation does not use.                      *)
(***************************************************************************)
NoCursor == [CursorElement |-> Nil, X |-> 0, Y |-> 0]

NoButtons == <<FALSE, FALSE, FALSE>>

NoGfx == [called |-> FALSE, ok |-> FALSE, t |-> Nil, tex |-> <<>>]

NoRet == [op |-> "none"]

NoHist == [op |-> "none"]

\* the surfaces of the last Render call that are still allocated
LiveSurfaces == {t \in 1..Len(gfx.tex) : gfx.tex[t].live}

RECURSIVE SumReleases(_, _)
SumReleases(tex, n) == IF n = 0 THEN 0 ELSE tex[n].rel + SumReleases(tex, n - 1)

\* main's frame step up to the call of root.Render (lines 1114-1117)
RenderCall(root, failAt) ==
    \E r \in {Render(RenderState(elems, failAt), root)} :
       /\ elems' = r.st.el
       /\ gfx' = [called |-> TRUE, ok |-> r.ok, t |-> r.t, tex |-> r.st.tex]

(***************************************************************************)
(* SpecSize: ExpandedSize on a chain root -> child -> grandchild ... whose  *)
(* configured sizes are drawn from SizeConfigs.                            *)
(***************************************************************************)
MaxDepth == 3

WidthConfigs == {<<1000, FALSE>>, <<50, TRUE>>, <<100, TRUE>>, <<-1, FALSE>>}

HeightConfigs == {<<720, FALSE>>, <<50, TRUE>>, <<-1, FALSE>>}

\* elements 1..n, each appended to the one before it
RECURSIVE Chain(_, _)
Chain(el, n) == IF n <= 1 THEN el ELSE AppendChild(Chain(el, n - 1), n - 1, n)

InitSize ==
    /\ \E w \in [1..MaxDepth -> WidthConfigs], h \in [1..MaxDepth -> HeightConfigs] :
          elems = Chain([e \in 1..MaxDepth |-> Sized(w[e][1], w[e][2], h[e][1], h[e][2])],
                        MaxDepth)
    /\ cursor = NoCursor
    /\ selectedElement = Nil
    /\ oldMouseButtonStates = NoButtons
    /\ events = <<>>
    /\ gfx = NoGfx
    /\ ret = NoRet
    /\ hist = NoHist

CallExpandedSize(e) ==
    /\ ret' = [op |-> "ExpandedSize", e |-> e, size |-> ExpandedSize(elems, e)]
    /\ UNCHANGED <<elems, cursor, selectedElement, oldMouseButtonStates, events, gfx, hist>>

NextSize == \E e \in 1..MaxDepth : CallExpandedSize(e)

SpecSize == InitSize /\ [][NextSize]_vars

(* C9: ExpandedSize returns, on each axis independently, the configured     *)
(* value when the axis is not a percentage and configured * (the parent's  *)
(* resolved value on that axis, 0 without a parent) / 100 when it is; a    *)
(* 50% child of width 1000 resolves to 500 and a 50% child of that to 250. *)
RECURSIVE ResolvedWidth(_, _)
ResolvedWidth(el, e) ==
    IF ~el[e].WidthPercent THEN el[e].Width
    ELSE GoDiv(el[e].Width * (IF el[e].Parent = Nil THEN 0
                              ELSE ResolvedWidth(el, el[e].Parent)), 100)

RECURSIVE ResolvedHeight(_, _)
ResolvedHeight(el, e) ==
    IF ~el[e].HeightPercent THEN el[e].Height
    ELSE GoDiv(el[e].Height * (IF el[e].Parent = Nil THEN 0
                               ELSE ResolvedHeight(el, el[e].Parent)), 100)

HalfOfHalf ==
    /\ elems[1].Width = 1000 /\ ~elems[1].WidthPercent
    /\ elems[2].Width = 50 /\ elems[2].WidthPercent
    /\ elems[3].Width = 50 /\ elems[3].WidthPercent

\* C9: ExpandedSize resolves each axis independently against the parent's resolved size
C9_ExpandedSize ==
    ret.op = "ExpandedSize" =>
        /\ ret.size = <<ResolvedWidth(elems, ret.e), ResolvedHeight(elems, ret.e)>>
        /\ (HalfOfHalf /\ ret.e = 1) => ret.size[1] = 1000
        /\ (HalfOfHalf /\ ret.e = 2) => ret.size[1] = 500
        /\ (HalfOfHalf /\ ret.e = 3) => ret.size[1] = 250
        /\ (elems[ret.e].Parent = Nil /\ elems[ret.e].WidthPercent) => ret.size[1] = 0

C9_Witness ==
    /\ ret.op = "ExpandedSize" /\ ret.e = 3 /\ HalfOfHalf
    /\ ret.size[1] = 250
    /\ elems[3].HeightPercent /\ ~elems[2].HeightPercent /\ ret.size[2] = 360

(***************************************************************************)
(* SpecWrap: a container (element 1) of fixed width with MaxKids children  *)
(* of fixed size, zero margins, neither inline nor breaking; the window is *)
(* resized and the tree rendered.                                          *)
(***************************************************************************)
MaxKids == 3

ContainerWidths == {100, 90}

KidWidths == {30, 40, 60}

KidHeights == {10, 20}

\* children 2..n of the elements, appended to element 1 in order
RECURSIVE Star(_, _)
Star(el, n) == IF n <= 1 THEN el ELSE AppendChild(Star(el, n - 1), 1, n)

\* child k: an image when k is even, an empty container when k is odd
WrapKid(k, w, h) ==
    IF k % 2 = 0
    THEN [Sized(w, FALSE, h, FALSE) EXCEPT !.Content = ImageContent(30, 30)]
    ELSE Sized(w, FALSE, h, FALSE)

InitWrap ==
    /\ \E W \in ContainerWidths,
          w \in [2..(MaxKids + 1) -> KidWidths], h \in [2..(MaxKids + 1) -> KidHeights] :
          elems = Star([e \in 1..(MaxKids + 1) |->
                           IF e = 1 THEN Sized(W, FALSE, -1, FALSE)
                           ELSE WrapKid(e, w[e], h[e])],
                       MaxKids + 1)
    /\ cursor = NoCursor
    /\ selectedElement = Nil
    /\ oldMouseButtonStates = NoButtons
    /\ events = <<>>
    /\ gfx = NoGfx
    /\ ret = NoRet
    /\ hist = NoHist

\* main lines 1096-1099: the window size becomes the root's configured size
Resize(W) ==
    /\ elems[1].Width # W
    /\ elems' = [elems EXCEPT ![1].Width = W]
    /\ ret' = [op |-> "Resize"]
    /\ UNCHANGED <<cursor, selectedElement, oldMouseButtonStates, events, gfx, hist>>

\* main lines 1114-1126: render the root, present and destroy its texture
Frame ==
    /\ RenderCall(1, 0)
    /\ ret' = [op |-> "Render"]
    /\ UNCHANGED <<cursor, selectedElement, oldMouseButtonStates, events, hist>>

NextWrap ==
    \/ \E W \in ContainerWidths : Resize(W)
    \/ Frame

SpecWrap == InitWrap /\ [][NextWrap]_vars

(* C8: in a container of fixed width W (no scrolling, zero margins, no     *)
(* inline or breaking children) the first child is at (0, 0); a later      *)
(* child starts a new line exactly when the x after its predecessor plus   *)
(* its own width exceeds W; on the same line it is placed right after its  *)
(* predecessor, on a new line at x = 0 and below the tallest child of the  *)
(* line above.  W = 100 and three children of width 40 give (0,0), (40,0), *)
(* (0,H).                                                                  *)
KidX(i) == elems[elems[1].Children[i]].LastRenderedX

KidY(i) == elems[elems[1].Children[i]].LastRenderedY

KidW(i) == elems[elems[1].Children[i]].LastRenderedWidth

KidH(i) == elems[elems[1].Children[i]].LastRenderedHeight

\* child i (i > 1) does not fit after child i - 1
Overflows(i) == KidX(i - 1) + KidW(i - 1) + KidW(i) > elems[1].Width

\* children j..i lie on one line
OneLine(j, i) == \A q \in (j + 1)..i : ~Overflows(q)

\* the tallest child of the line that ends with child i
LineHeightEndingAt(i) ==
    LET hs == {KidH(j) : j \in {q \in 1..i : OneLine(q, i)}}
    IN CHOOSE m \in hs : \A x \in hs : x <= m

\* C8: wrap-flow placement of fixed-size children in a fixed-width container
C8_WrapFlow ==
    ret.op = "Render" =>
        /\ \A i \in 1..Len(elems[1].Children) :
              /\ KidW(i) = elems[elems[1].Children[i]].Width
              /\ KidH(i) = elems[elems[1].Children[i]].Height
              /\ i = 1 => KidX(i) = 0 /\ KidY(i) = 0
              /\ (i > 1 /\ Overflows(i)) =>
                    KidX(i) = 0 /\ KidY(i) = KidY(i - 1) + LineHeightEndingAt(i - 1)
              /\ (i > 1 /\ ~Overflows(i)) =>
                    KidX(i) = KidX(i - 1) + KidW(i - 1) /\ KidY(i) = KidY(i - 1)
        /\ (elems[1].Width = 100 /\ \A i \in 1..3 : KidW(i) = 40) =>
              /\ <<KidX(1), KidY(1)>> = <<0, 0>>
              /\ <<KidX(2), KidY(2)>> = <<40, 0>>
              /\ <<KidX(3), KidY(3)>> = <<0, Max(KidH(1), KidH(2))>>

C8_Witness ==
    /\ ret.op = "Render"
    /\ elems[1].Width = 100
    /\ \A i \in 1..3 : KidW(i) = 40
    /\ KidH(1) = 10 /\ KidH(2) = 20
    /\ <<KidX(3), KidY(3)>> = <<0, 20>>

(***************************************************************************)
(* SpecRender: Render of a tree of MaxNodes elements of any shape, whose   *)
(* leaves are texts, images or empty containers configured as main         *)
(* configures its characters, its image button and its rows; provider      *)
(* operation number failAt of the call fails (0: none).  A failed Render   *)
(* makes main panic, so nothing follows it.                                *)
(***************************************************************************)
MaxNodes == 4

MaxFailAt == 36

NodeKinds == {"Text", "Image", "Box"}

\* the element of a kind, configured as newCharElement, buttonSave and newLineElement do
NodeOfKind(k) ==
    IF k = "Text"
    THEN [Sized(-1, FALSE, -1, FALSE) EXCEPT !.Content = TextContent("a", FALSE)]
    ELSE IF k = "Image"
    THEN [Sized(30, FALSE, 30, FALSE) EXCEPT
             !.MarginX = 5, !.MarginY = 5, !.Content = ImageContent(30, 30)]
    ELSE [Sized(100, TRUE, -1, FALSE) EXCEPT !.MinHeight = 40]

\* elements 2..n appended, in order, to their parents par[2..n]
RECURSIVE Grow(_, _, _)
Grow(el, par, n) == IF n <= 1 THEN el ELSE AppendChild(Grow(el, par, n - 1), par[n], n)

InitRender ==
    /\ \E par \in [2..MaxNodes -> 1..MaxNodes], kind \in [2..MaxNodes -> NodeKinds] :
          /\ \A n \in 2..MaxNodes : par[n] < n /\ (par[n] > 1 => kind[par[n]] = "Box")
          /\ elems = Grow([e \in 1..MaxNodes |->
                              IF e = 1 THEN Sized(1280, FALSE, 720, FALSE)
                              ELSE NodeOfKind(kind[e])],
                          par, MaxNodes)
    /\ cursor = NoCursor
    /\ selectedElement = Nil
    /\ oldMouseButtonStates = NoButtons
    /\ events = <<>>
    /\ gfx = NoGfx
    /\ ret = NoRet
    /\ hist = NoHist

\* main lines 1114-1117: root.Render, whose provider operation failAt fails
RenderRoot(failAt) ==
    /\ ~gfx.called \/ (gfx.ok /\ LiveSurfaces = {})
    /\ RenderCall(1, failAt)
    /\ ret' = [op |-> "Render"]
    /\ UNCHANGED <<cursor, selectedElement, oldMouseButtonStates, events, hist>>

\* main lines 1124-1126: the root texture is copied to the window and destroyed
Present ==
    /\ gfx.called /\ gfx.ok /\ gfx.t \in LiveSurfaces
    /\ gfx' = [gfx EXCEPT !.tex[gfx.t].live = FALSE, !.tex[gfx.t].rel = @ + 1]
    /\ ret' = [op |-> "Present"]
    /\ UNCHANGED <<elems, cursor, selectedElement, oldMouseButtonStates, events, hist>>

NextRender ==
    \/ \E f \in 0..MaxFailAt : RenderRoot(f)
    \/ Present

SpecRender == InitRender /\ [][NextRender]_vars

\* C4: a Render of the root that succeeds allocates exactly one surface more than it
\* releases; every surface but the returned one is released, once
C4_OneSurfaceReturned ==
    (ret.op = "Render" /\ gfx.ok) =>
        /\ Len(gfx.tex) = SumReleases(gfx.tex, Len(gfx.tex)) + 1
        /\ LiveSurfaces = {gfx.t}
        /\ \A t \in 1..Len(gfx.tex) : gfx.tex[t].rel = IF t = gfx.t THEN 0 ELSE 1

C4_Witness ==
    /\ ret.op = "Render" /\ gfx.ok
    /\ Len(gfx.tex) >= 7
    /\ \E e \in 2..MaxNodes : elems[e].Content.kind = "Text" /\ elems[e].Parent > 1
    /\ \E e \in 2..MaxNodes : elems[e].Content.kind = "Image"

\* C5: after every Render, failed ones included, each surface allocated during the call
\* has been released exactly once or is the surface returned to the caller
C5_NoLeakOnAnyPath ==
    ret.op = "Render" =>
        \A t \in 1..Len(gfx.tex) :
            \/ gfx.tex[t].rel = 1 /\ ~gfx.tex[t].live
            \/ gfx.tex[t].rel = 0 /\ gfx.ok /\ t = gfx.t

(***************************************************************************)
(* SpecTree: at most MaxCalls tree-building calls, made in any order and   *)
(* with any arguments, on elements that start with neither Content nor     *)
(* children.                                                               *)
(***************************************************************************)
MaxCalls == 3

TreeElems == {1, 2, 3}

TreeContents == {NoContent, TextContent("a", FALSE), ImageContent(30, 30)}

InitTree ==
    /\ elems = [e \in TreeElems |-> NewElement]
    /\ cursor = NoCursor
    /\ selectedElement = Nil
    /\ oldMouseButtonStates = NoButtons
    /\ events = <<>>
    /\ gfx = NoGfx
    /\ ret = NoRet
    /\ hist = [calls |-> 0]

\* the elements reachable from those of S through child lists, in at most n steps
RECURSIVE Below(_, _, _)
Below(el, S, n) ==
    IF n = 0 THEN S
    ELSE Below(el, S \cup UNION {{el[x].Children[k] : k \in 1..Len(el[x].Children)} : x \in S},
               n - 1)

\* the elements reachable from those of S through Parent, in at most n steps
RECURSIVE Above(_, _, _)
Above(el, S, n) ==
    IF n = 0 THEN S
    ELSE Above(el, S \cup ({el[x].Parent : x \in S} \ {Nil}), n - 1)

\* Render(e) returns: neither the child lists below e nor the Parent chains of the
\* elements below e lead back into themselves
RenderTerminates(el, e) ==
    \A x \in Below(el, {e}, Cardinality(DOMAIN el)) :
        /\ x \notin Below(el, {el[x].Children[k] : k \in 1..Len(el[x].Children)},
                          Cardinality(DOMAIN el))
        /\ el[x].Parent # Nil => x \notin Above(el, {el[x].Parent}, Cardinality(DOMAIN el))

\* one more call is made
Called(op, e) ==
    /\ hist.calls < MaxCalls
    /\ hist' = [calls |-> hist.calls + 1]
    /\ ret' = [op |-> op, e |-> e]
    /\ UNCHANGED <<cursor, selectedElement, oldMouseButtonStates, events>>

CallSetContent(e, content) ==
    /\ Called("SetContent", e)
    /\ elems' = SetContent(elems, e, content)
    /\ UNCHANGED gfx

CallAppendChild(e, child) ==
    /\ Called("AppendChild", e)
    /\ elems' = AppendChild(elems, e, child)
    /\ UNCHANGED gfx

CallInsertChild(e, child, i) ==
    /\ Called("InsertChild", e)
    /\ elems' = InsertChild(elems, e, child, i)
    /\ UNCHANGED gfx

CallRemove(e) ==
    /\ Called("Remove", e)
    /\ elems' = Remove(elems, e)
    /\ UNCHANGED gfx

CallRender(e) ==
    /\ Called("Render", e)
    /\ RenderTerminates(elems, e)
    /\ RenderCall(e, 0)

\* Destroy(e), which returns when the child lists below e lead to no cycle
CallDestroyIn(e) ==
    /\ Called("Destroy", e)
    /\ RenderTerminates(elems, e)
    /\ elems' = Destroy([el |-> elems, destroyed |-> [x \in DOMAIN elems |-> 0]], e).el
    /\ UNCHANGED gfx

NextTree ==
    \/ \E e \in TreeElems, c \in TreeContents : CallSetContent(e, c)
    \/ \E e \in TreeElems, child \in TreeElems : CallAppendChild(e, child)
    \/ \E e \in TreeElems, child \in TreeElems :
          \E i \in 0..Len(elems[e].Children) : CallInsertChild(e, child, i)
    \/ \E e \in TreeElems : CallRemove(e)
    \/ \E e \in TreeElems : CallRender(e)
    \/ \E e \in TreeElems : CallDestroyIn(e)

SpecTree == InitTree /\ [][NextTree]_vars

\* C10: no element has both Content and children
C10_ContentXorChildren ==
    \A e \in DOMAIN elems : ~(elems[e].Content.kind # "nil" /\ elems[e].Children # <<>>)

\* SetContent has emptied the child list of an element that had children (one of them
\* still names it as Parent), and another element holds children
C10_Witness ==
    \E p \in DOMAIN elems, c \in DOMAIN elems, q \in DOMAIN elems :
        /\ ret.op = "SetContent" /\ ret.e = p
        /\ elems[p].Content.kind # "nil" /\ elems[c].Parent = p /\ elems[p].Children = <<>>
        /\ q # p /\ elems[q].Children # <<>>

(***************************************************************************)
(* SpecScroll: wheel events and frames on a tree with two nested           *)
(* containers whose scroll flags are drawn: the root (1) holds container 2 *)
(* (100 x 100), which holds container 3 (80 x 80, holding box 5) and       *)
(* box 4.  The pointer is at a point of ScrollPoints; the wheel delta of   *)
(* an event is an int32 on each axis, here a small one (at most MaxDelta   *)
(* either way) or a far one of FarDeltas.  MaxWheels wheel events are      *)
(* followed.                                                               *)
(***************************************************************************)
MaxDelta == 1

MaxWheels == 2

ScrollPoints == {10, 50, 90, 170}

\* -35791394 * 60 = -2147483640, seven short of the smallest int32
FarDeltas == {-35791394, 35791394}

WheelDeltas == ((-MaxDelta)..MaxDelta) \cup FarDeltas

Box(w, h) == Sized(w, FALSE, h, FALSE)

ScrollBox(w, h, sx, sy) == [Box(w, h) EXCEPT !.ScrollX = sx, !.ScrollY = sy]

InitScroll ==
    /\ \E f \in [{2, 3} -> BOOLEAN \X BOOLEAN], w \in {70, 150}, h \in {60, 130} :
          elems = Grow([e \in 1..5 |->
                           IF e = 1 THEN Box(300, 300)
                           ELSE IF e = 2 THEN ScrollBox(100, 100, f[2][1], f[2][2])
                           ELSE IF e = 3 THEN ScrollBox(80, 80, f[3][1], f[3][2])
                           ELSE IF e = 4 THEN Box(w, h)
                           ELSE Box(120, 120)],
                       [n \in 2..5 |-> IF n = 2 THEN 1 ELSE IF n = 5 THEN 3 ELSE 2], 5)
    /\ cursor = NoCursor
    /\ selectedElement = Nil
    /\ oldMouseButtonStates = NoButtons
    /\ events = <<>>
    /\ gfx = NoGfx
    /\ ret = NoRet
    /\ hist = [wheels |-> 0]

\* main lines 1081-1084: a wheel event
WheelEvent(mouseX, mouseY, scrollX, scrollY) ==
    /\ hist.wheels < MaxWheels
    /\ \E r \in {Scroll(elems, 1, mouseX, mouseY, scrollX, scrollY)} :
          /\ elems' = r.el
          /\ ret' = [op |-> "Scroll", scrolled |-> r.scrolled]
    /\ hist' = [wheels |-> hist.wheels + 1]
    /\ UNCHANGED <<cursor, selectedElement, oldMouseButtonStates, events, gfx>>

\* main lines 1114-1126 when nothing fails: render the root, present, destroy the texture
ScrollFrame ==
    /\ \E r \in {Render(RenderState(elems, 0), 1)} : elems' = r.st.el
    /\ ret' = [op |-> "Render"]
    /\ UNCHANGED <<cursor, selectedElement, oldMouseButtonStates, events, gfx, hist>>

NextScroll ==
    \/ \E x \in ScrollPoints, y \in ScrollPoints, dx \in WheelDeltas, dy \in WheelDeltas :
          WheelEvent(x, y, dx, dy)
    \/ ScrollFrame

SpecScroll == InitScroll /\ [][NextScroll]_vars

\* C6: after every Scroll call each element's offsets lie in
\* [0, max(0, content extent - view extent)] on both axes
C6_ScrollClamped ==
    ret.op = "Scroll" =>
        \A e \in DOMAIN elems :
            /\ 0 <= elems[e].ScrollPositionX
            /\ elems[e].ScrollPositionX
                  <= Max(0, elems[e].LastRenderedChildWidth - elems[e].LastRenderedWidth)
            /\ 0 <= elems[e].ScrollPositionY
            /\ elems[e].ScrollPositionY
                  <= Max(0, elems[e].LastRenderedChildHeight - elems[e].LastRenderedHeight)

(***************************************************************************)
(* SpecMouse: mouse events and frames on a tree of recording elements:     *)
(* the root (1, 200 x 200) holds element 2 (100 x 100, holding element 3,  *)
(* 50 x 50) and element 4 (60 x 60).  Elements 2, 3 and 4 are selectable;  *)
(* whether the root is, and whether element 4 is selected at first, is     *)
(* drawn.  An event finds the pointer at a point of MousePoints with at    *)
(* most one of the three buttons changed since the event before, as SDL    *)
(* queues an event for each change; MaxPasses events are followed.  hist   *)
(* keeps,                                                                  *)
(* for each button, the elements the pointer was over in the pass the      *)
(* button went down in (down), those of them it has been over in every     *)
(* pass since (held), and for the last pass the buttons that went up in it *)
(* (up) and the elements the pointer was over (over).                      *)
(***************************************************************************)
MaxPasses == 3

MouseElems == 1..4

MousePoints == {<<25, 25>>, <<75, 75>>, <<125, 25>>, <<180, 180>>}

ButtonStates == {<<b0, b1, b2>> : b0 \in BOOLEAN, b1 \in BOOLEAN, b2 \in BOOLEAN}

\* the button states that differ from old in at most one button
NextButtonStates(old) ==
    {new \in ButtonStates : Cardinality({b \in 1..3 : new[b] # old[b]}) <= 1}

Buttons == 0..2

NoPasses == [down |-> [b \in Buttons |-> {}], held |-> [b \in Buttons |-> {}],
             up |-> {}, over |-> {}, passes |-> 0]

Recording(w, h, selectable) ==
    [Box(w, h) EXCEPT !.Selectable = selectable, !.EventHandlers = <<LogHandler>>]

InitMouse ==
    /\ \E f \in [MouseElems -> BOOLEAN], sel \in {Nil, 4} :
          /\ \A e \in 2..4 : f[e]
          /\ elems = Grow([e \in MouseElems |->
                              [ (IF e = 1 THEN Recording(200, 200, f[e])
                                 ELSE IF e = 2 THEN Recording(100, 100, f[e])
                                 ELSE IF e = 3 THEN Recording(50, 50, f[e])
                                 ELSE Recording(60, 60, f[e]))
                                EXCEPT !.Selected = (e = sel) ]],
                          [n \in 2..4 |-> IF n = 3 THEN 2 ELSE 1], 4)
          /\ selectedElement = sel
    /\ cursor = NoCursor
    /\ oldMouseButtonStates = NoButtons
    /\ events = <<>>
    /\ gfx = NoGfx
    /\ ret = NoRet
    /\ hist = NoPasses

\* what the history of passes becomes after a pass with the pointer over the
\* elements of over and the buttons going from old to new
Passed(h, old, new, over) ==
    [down |-> [b \in Buttons |->
                  IF ~old[b + 1] /\ new[b + 1] THEN over ELSE h.down[b]],
     held |-> [b \in Buttons |->
                  IF ~old[b + 1] /\ new[b + 1] THEN over
                  ELSE IF old[b + 1] THEN h.held[b] \cap over
                  ELSE {}],
     up |-> {b \in Buttons : old[b + 1] /\ ~new[b + 1]},
     over |-> over,
     passes |-> h.passes + 1]

\* main lines 1069-1080: a mouse motion or button event
MouseEvent(x, y, new) ==
    /\ hist.passes < MaxPasses
    /\ \E ms \in {MouseUpdate(Dispatch(elems, cursor, selectedElement), 1, x, y,
                              oldMouseButtonStates, new, TRUE)} :
          /\ elems' = Reselect(ms.el, 1, ms.selected)
          /\ selectedElement' = ms.selected
          /\ cursor' = ms.cursor
          /\ events' = ms.events
          /\ hist' = Passed(hist, oldMouseButtonStates, new, ms.over)
    /\ oldMouseButtonStates' = new
    /\ ret' = [op |-> "MouseUpdate"]
    /\ UNCHANGED gfx

\* main lines 1114-1126 when nothing fails
MouseFrame ==
    /\ \E r \in {Render(RenderState(elems, 0), 1)} : elems' = r.st.el
    /\ UNCHANGED <<cursor, selectedElement, oldMouseButtonStates, events, gfx, ret, hist>>

NextMouse ==
    \/ \E p \in MousePoints, new \in NextButtonStates(oldMouseButtonStates) :
          MouseEvent(p[1], p[2], new)
    \/ MouseFrame

SpecMouse == InitMouse /\ [][NextMouse]_vars

\* element e was given the event in the last pass
Received(e, ev) == \E i \in 1..Len(events) : events[i] = [e |-> e, ev |-> ev]

\* C2: after a mouse event handled by the main loop at most one element of
\* the tree has Selected set
C2_SingleSelection ==
    ret.op = "MouseUpdate" =>
        Cardinality({e \in InTree(elems, 1) : elems[e].Selected}) <= 1

\* a press over two nested selectable elements, one of them selected before,
\* has moved the selection to the inner one
C2_Witness ==
    /\ ret.op = "MouseUpdate"
    /\ elems[2].Selectable /\ elems[3].Selectable /\ elems[4].Selectable
    /\ {2, 3} \subseteq hist.over
    /\ \E b \in Buttons : oldMouseButtonStates[b + 1] /\ hist.down[b] = hist.over
    /\ selectedElement = 3
    /\ elems[3].Selected

\* C3 as stated: button b went down in a pass with the pointer over A and up
\* in this pass with the pointer over another element B: B is given
\* ButtonUp(b) and neither A nor B is given Click(b)
C3_NoClickAcross ==
    \A b \in hist.up : \A A \in hist.down[b], B \in hist.over :
        A # B =>
            /\ Received(B, MouseButtonEvent("Up", b))
            /\ ~Received(A, MouseButtonEvent("Click", b))
            /\ ~Received(B, MouseButtonEvent("Click", b))

\* C3 amended: in the pass button b goes up in, every element under the
\* pointer is given ButtonUp(b), and an element is given Click(b) exactly when
\* the pointer was over it in the pass b went down in and in every pass since;
\* so with the pointer over A and not B at the press, and over B and not A at
\* the release, neither is given Click(b)
C3_ClickNeedsBoth ==
    \A b \in hist.up :
        /\ \A B \in hist.over : Received(B, MouseButtonEvent("Up", b))
        /\ \A e \in MouseElems :
              Received(e, MouseButtonEvent("Click", b)) <=> e \in hist.held[b]
        /\ \A A \in hist.down[b] \ hist.over, B \in hist.over \ hist.down[b] :
              /\ ~Received(A, MouseButtonEvent("Click", b))
              /\ ~Received(B, MouseButtonEvent("Click", b))

\* a button pressed over element 3 and not over element 4 has been released
\* over element 4 and not over element 3
C3_Witness ==
    \E b \in hist.up :
        /\ 3 \in hist.down[b] /\ 4 \notin hist.down[b]
        /\ 4 \in hist.over /\ 3 \notin hist.over
        /\ Received(4, MouseButtonEvent("Up", b))

(***************************************************************************)
(* The editor as main sets it up: the root (1) holds the top bar (2), which *)
(* holds the save button (3), and the text editing area (4), selected,      *)
(* whose one row (6) holds the cursor element (5).  The elements from 7 on  *)
(* are those the editor makes later.                                        *)
(***************************************************************************)
EditorElements(n) ==
    LET area == [Sized(100, TRUE, 100, FALSE) EXCEPT
                    !.ScrollY = TRUE, !.Selectable = TRUE, !.Selected = TRUE,
                    !.IsTextInput = TRUE, !.EventHandlers = <<[kind |-> "area"]>>]
        save == [NodeOfKind("Image") EXCEPT !.EventHandlers = <<[kind |-> "save"]>>]
        el0 == [e \in 1..(6 + n) |->
                   IF e = 1 THEN Sized(1280, FALSE, 720, FALSE)
                   ELSE IF e = 2 THEN Sized(100, TRUE, 40, FALSE)
                   ELSE IF e = 3 THEN save
                   ELSE IF e = 4 THEN area
                   ELSE IF e = 5 THEN Sized(5, FALSE, 40, FALSE)
                   ELSE IF e = 6 THEN newLineElement(4)
                   ELSE NewElement]
        el1 == AppendChild(AppendChild(el0, 1, 2), 2, 3)
        el2 == AppendChild(AppendChild(el1, 4, 6), 6, 5)
    IN AppendChild(el2, 1, 4)

\* the rows of the document: the characters of each row, the cursor left out
RECURSIVE RowText(_, _, _)
RowText(el, kids, ce) ==
    IF kids = <<>> THEN <<>>
    ELSE (IF Head(kids) = ce THEN <<>> ELSE <<el[Head(kids)].Content.Content>>)
         \o RowText(el, Tail(kids), ce)

\* the document: its rows and the cursor position
Document(el, cur) ==
    [rows |-> [y \in 1..Len(el[4].Children) |->
                  RowText(el, el[el[4].Children[y]].Children, cur.CursorElement)],
     X |-> cur.X, Y |-> cur.Y]

\* main lines 1085-1092: a text or key event is given to the selected element.
\* A byte or key that makes an element needs an id for it.
KeyStep(event) ==
    /\ ret.op # "panic"
    /\ selectedElement # Nil
    /\ (event.event = "TextEvent" \/ event.Code = "K_RETURN") => FreeIds(elems, cursor) # {}
    /\ \E ms \in {Emit(Dispatch(elems, cursor, selectedElement), selectedElement, event)} :
          /\ elems' = Collect(ms.el, ms.cursor)
          /\ cursor' = ms.cursor
          /\ ret' = [op |-> IF ms.panic THEN "panic"
                            ELSE IF event.event = "TextEvent" THEN "TextEvent"
                            ELSE event.Code]
    /\ UNCHANGED <<selectedElement, oldMouseButtonStates, events, gfx>>

(***************************************************************************)
(* SpecType: the keyboard alone, from the empty document.  The letters     *)
(* typed are those of Letters, the editor makes at most MaxTyped elements  *)
(* (characters and rows) at a time.  hist keeps the document before the    *)
(* last event if that was a Backspace (from), the document before the last *)
(* Return if nothing or a Backspace came after it (split), and how far the *)
(* events so far have followed the sequence a, b, Return, c (example).     *)
(***************************************************************************)
MaxTyped == 4

Letters == {"a", "b", "c"}

KeyCodes == {"K_RETURN", "K_BACKSPACE", "K_DELETE", "K_RIGHT", "K_LEFT", "K_DOWN", "K_UP"}

Example == <<TextEvent("a"), TextEvent("b"), KeyEvent("KEYDOWN", "K_RETURN"), TextEvent("c")>>

NoDocument == [rows |-> <<>>, X |-> -1, Y |-> -1]

InitType ==
    /\ elems = EditorElements(MaxTyped)
    /\ cursor = [CursorElement |-> 5, X |-> 0, Y |-> 0]
    /\ selectedElement = 4
    /\ oldMouseButtonStates = NoButtons
    /\ events = <<>>
    /\ gfx = NoGfx
    /\ ret = NoRet
    /\ hist = [from |-> NoDocument, split |-> NoDocument, example |-> 0]

Typed(event) ==
    /\ KeyStep(event)
    /\ hist' = [from |-> IF event = KeyEvent("KEYDOWN", "K_BACKSPACE")
                         THEN Document(elems, cursor) ELSE NoDocument,
                split |-> IF event = KeyEvent("KEYDOWN", "K_RETURN")
                          THEN Document(elems, cursor)
                          ELSE IF event = KeyEvent("KEYDOWN", "K_BACKSPACE")
                                  /\ ret.op = "K_RETURN"
                          THEN hist.split
                          ELSE NoDocument,
                example |-> IF hist.example < Len(Example)
                               /\ event = Example[hist.example + 1]
                            THEN hist.example + 1 ELSE Len(Example) + 1]

NextType ==
    \/ \E c \in Letters : Typed(TextEvent(c))
    \/ \E k \in KeyCodes : Typed(KeyEvent("KEYDOWN", k))

SpecType == InitType /\ [][NextType]_vars

\* C7: a Return immediately followed by a Backspace leaves the rows and the
\* cursor as they were; typing a, b, Return, c gives the rows "ab" and "c",
\* and a Backspace with the cursor at row 1, column 0 of these rows gives
\* the one row "abc" with the cursor at column 2
C7_SplitThenMerge ==
    /\ (ret.op = "K_BACKSPACE" /\ hist.split # NoDocument)
          => Document(elems, cursor) = hist.split
    /\ hist.example = Len(Example)
          => Document(elems, cursor).rows = <<(<<"a", "b">>), (<<"c">>)>>
    /\ (ret.op = "K_BACKSPACE"
          /\ hist.from = [rows |-> <<(<<"a", "b">>), (<<"c">>)>>, X |-> 0, Y |-> 1])
          => Document(elems, cursor) = [rows |-> << <<"a", "b", "c">> >>, X |-> 2, Y |-> 0]

\* the row "abc" was split with the cursor between b and c, and the rows
\* "ab" and "c" were merged again from row 1, column 0
C7_Witness ==
    /\ ret.op = "K_BACKSPACE"
    /\ hist.split = [rows |-> << <<"a", "b", "c">> >>, X |-> 2, Y |-> 0]
    /\ hist.from = [rows |-> <<(<<"a", "b">>), (<<"c">>)>>, X |-> 0, Y |-> 1]

(***************************************************************************)
(* SpecEditor: the editor with its keyboard, its frames and button 0 of    *)
(* the mouse, from the empty document.  The events of the queue are        *)
(* handled one by one and a frame is rendered when the queue is empty, so  *)
(* any number of events may come between two frames.  The letter typed is  *)
(* "a", the editor makes at most MaxEdited elements at a time, and MaxKeys  *)
(* key and text events, MaxFrames frames and MaxClicks presses of the      *)
(* button are followed; the pointer is at a point of EditorPoints.         *)
(***************************************************************************)
MaxEdited == 3

MaxKeys == 5

MaxFrames == 1

MaxClicks == 1

EditorPoints == {<<7, 50>>, <<30, 50>>, <<7, 90>>}

InitEditor ==
    /\ elems = EditorElements(MaxEdited)
    /\ cursor = [CursorElement |-> 5, X |-> 0, Y |-> 0]
    /\ selectedElement = 4
    /\ oldMouseButtonStates = NoButtons
    /\ events = <<>>
    /\ gfx = NoGfx
    /\ ret = NoRet
    /\ hist = [keys |-> 0, frames |-> 0, clicks |-> 0]

\* main lines 1085-1092
EditorKey(event) ==
    /\ hist.keys < MaxKeys
    /\ KeyStep(event)
    /\ hist' = [hist EXCEPT !.keys = @ + 1]

\* main lines 1069-1080: button 0 goes down or up with the pointer at (x, y)
EditorButton(x, y) ==
    /\ ret.op # "panic"
    /\ ~oldMouseButtonStates[1] => hist.clicks < MaxClicks
    /\ \E new \in {[oldMouseButtonStates EXCEPT ![1] = ~@]} :
          /\ \E ms \in {MouseUpdate(Dispatch(elems, cursor, selectedElement), 1, x, y,
                                    oldMouseButtonStates, new, TRUE)} :
                /\ elems' = Collect(Reselect(ms.el, 1, ms.selected), ms.cursor)
                /\ selectedElement' = ms.selected
                /\ cursor' = ms.cursor
          /\ oldMouseButtonStates' = new
          /\ ret' = [op |-> IF new[1] THEN "ButtonDown" ELSE "ButtonUp"]
          /\ hist' = [hist EXCEPT !.clicks = IF new[1] THEN @ + 1 ELSE @]
    /\ UNCHANGED <<events, gfx>>

\* main lines 1114-1126 when nothing fails
EditorFrame ==
    /\ ret.op # "panic"
    /\ hist.frames < MaxFrames
    /\ \E r \in {Render(RenderState(elems, 0), 1)} : elems' = r.st.el
    /\ ret' = [op |-> "Render"]
    /\ hist' = [hist EXCEPT !.frames = @ + 1]
    /\ UNCHANGED <<cursor, selectedElement, oldMouseButtonStates, events, gfx>>

NextEditor ==
    \/ EditorKey(TextEvent("a"))
    \/ \E k \in KeyCodes : EditorKey(KeyEvent("KEYDOWN", k))
    \/ \E p \in EditorPoints : EditorButton(p[1], p[2])
    \/ EditorFrame

SpecEditor == InitEditor /\ [][NextEditor]_vars

\* the text-editing operations: a byte written, a key, a press of button 0
EditingOps == {"TextEvent", "ButtonDown"} \cup KeyCodes

\* the places of the tree the cursor element occurs at
CursorPlaces ==
    {pi \in InTree(elems, 1) \X (1..(6 + MaxEdited)) :
        /\ pi[2] <= Len(elems[pi[1]].Children)
        /\ elems[pi[1]].Children[pi[2]] = cursor.CursorElement}

\* C1: after every text-editing operation the cursor element occurs exactly
\* once in the tree, as the child at index cursor.X of the row at index
\* cursor.Y, and the document has a row
C1_CursorInPlace ==
    ret.op \in EditingOps =>
        /\ Cardinality(CursorPlaces) = 1
        /\ Len(elems[4].Children) >= 1
        /\ 0 <= cursor.Y /\ cursor.Y < Len(elems[4].Children)
        /\ 0 <= cursor.X
        /\ cursor.X < Len(elems[elems[4].Children[cursor.Y + 1]].Children)
        /\ elems[elems[4].Children[cursor.Y + 1]].Children[cursor.X + 1] = cursor.CursorElement

(***************************************************************************)
(* SpecDestroy: Destroy called once, or Remove called up to MaxCalls times, *)
(* on elements of a tree of MaxNodes elements of any shape, its elements   *)
(* boxes, texts and images.  hist keeps the elements as they were before   *)
(* the last call and, for Destroy, the number of Content.Destroy calls     *)
(* each element got.                                                       *)
(***************************************************************************)
CallDestroy(e) ==
    /\ ret.op = "none"
    /\ \E d \in {Destroy([el |-> elems, destroyed |-> [x \in DOMAIN elems |-> 0]], e)} :
          /\ elems' = d.el
          /\ hist' = [before |-> elems, destroyed |-> d.destroyed]
    /\ ret' = [op |-> "Destroy", e |-> e]
    /\ UNCHANGED <<cursor, selectedElement, oldMouseButtonStates, events, gfx>>

\* a call of Remove
CallRemoveOf(e) ==
    /\ ret.op \in {"none", "Remove"}
    /\ ret.op = "Remove" => hist.calls < MaxCalls
    /\ elems' = Remove(elems, e)
    /\ hist' = [before |-> elems, cursor |-> cursor,
                calls |-> IF ret.op = "Remove" THEN hist.calls + 1 ELSE 1]
    /\ ret' = [op |-> "Remove", e |-> e]
    /\ UNCHANGED <<cursor, selectedElement, oldMouseButtonStates, events, gfx>>

NextDestroy ==
    \/ \E e \in 1..MaxNodes : CallDestroy(e)
    \/ \E e \in 1..MaxNodes : CallRemoveOf(e)

SpecDestroy == InitRender /\ [][NextDestroy]_vars

\* C11: Destroy(e) detaches e from its parent and calls Content.Destroy
\* exactly once on e and on each descendant of e that holds Content
C11_DestroyEachOnce ==
    ret.op = "Destroy" =>
        /\ elems[ret.e].Parent = Nil
        /\ \A p \in DOMAIN elems :
              \A k \in 1..Len(elems[p].Children) : elems[p].Children[k] # ret.e
        /\ \A d \in InTree(hist.before, ret.e) :
              hist.destroyed[d] = IF hist.before[d].Content.kind # "nil" THEN 1 ELSE 0

\* C12: Remove on an element that is in its parent's child sequence sets its
\* Parent to nil and deletes it from that sequence, the other children keeping
\* their order; its own children, every other element and the cursor
\* coordinates are unchanged; Remove on an element with no parent changes
\* nothing
C12_RemoveFrame ==
    ret.op = "Remove" =>
        /\ cursor = hist.cursor
        /\ IF hist.before[ret.e].Parent = Nil
           THEN elems = hist.before
           ELSE elems = [hist.before EXCEPT
                            ![hist.before[ret.e].Parent].Children =
                                SelectSeq(@, LAMBDA x : x # ret.e),
                            ![ret.e].Parent = Nil]

\* the second call of Remove has removed the middle one of three children
C12_Witness ==
    /\ ret.op = "Remove"
    /\ hist.calls = 2
    /\ hist.before[ret.e].Parent = 1
    /\ Len(hist.before[1].Children) = 3
    /\ hist.before[1].Children[2] = ret.e
    /\ elems[1].Children = <<hist.before[1].Children[1], hist.before[1].Children[3]>>

\* C13: after any sequence of AppendChild, InsertChild, SetContent, Remove
\* and Destroy calls every element occurs in the child sequence of at most
\* one element and at most once there, and c.Parent = p exactly when c
\* occurs in p.Children
C13_StrictTree ==
    \A c \in DOMAIN elems :
        /\ Cardinality({pk \in (DOMAIN elems) \X (1..(Cardinality(DOMAIN elems) + MaxCalls)) :
                           /\ pk[2] <= Len(elems[pk[1]].Children)
                           /\ elems[pk[1]].Children[pk[2]] = c}) <= 1
        /\ \A p \in DOMAIN elems :
              elems[c].Parent = p
                 <=> \E k \in 1..Len(elems[p].Children) : elems[p].Children[k] = c

(***************************************************************************)
(* SpecFrames: consecutive Render calls on the tree of SpecScroll, whose   *)
(* containers 2 and 3 start with any scroll flags and with offsets of      *)
(* ScrollOffsets on each axis.  Provider operation failAt of a call fails  *)
(* (0: none); a failed Render makes main panic, so nothing follows it.     *)
(* MaxRenders calls are followed.  hist keeps the elements as they were    *)
(* before the last call and whether the calls succeeded.                   *)
(***************************************************************************)
MaxRenders == 2

ScrollOffsets == {0, 20}

InitFrames ==
    /\ \E f \in [{2, 3} -> BOOLEAN \X BOOLEAN],
          o \in [{2, 3} -> ScrollOffsets \X ScrollOffsets], w \in {70, 150} :
          elems = Grow([e \in 1..5 |->
                           IF e = 1 THEN Box(300, 300)
                           ELSE IF e \in {2, 3}
                           THEN [ScrollBox(IF e = 2 THEN 100 ELSE 80, IF e = 2 THEN 100 ELSE 80,
                                           f[e][1], f[e][2]) EXCEPT
                                    !.ScrollPositionX = o[e][1],
                                    !.ScrollPositionY = o[e][2]]
                           ELSE IF e = 4 THEN Box(w, 60)
                           ELSE Box(120, 120)],
                       [n \in 2..5 |-> IF n = 2 THEN 1 ELSE IF n = 5 THEN 3 ELSE 2], 5)
    /\ cursor = NoCursor
    /\ selectedElement = Nil
    /\ oldMouseButtonStates = NoButtons
    /\ events = <<>>
    /\ gfx = NoGfx
    /\ ret = NoRet
    /\ hist = [renders |-> 0, before |-> <<>>, ok |-> TRUE]

\* main lines 1114-1117: root.Render, whose provider operation failAt fails
RenderFrame(failAt) ==
    /\ hist.renders < MaxRenders
    /\ hist.ok
    /\ \E r \in {Render(RenderState(elems, failAt), 1)} :
          /\ elems' = r.st.el
          /\ hist' = [renders |-> hist.renders + 1, before |-> elems, ok |-> r.ok]
    /\ ret' = [op |-> "Render"]
    /\ UNCHANGED <<cursor, selectedElement, oldMouseButtonStates, events, gfx>>

NextFrames == \E f \in 0..MaxFailAt : RenderFrame(f)

SpecFrames == InitFrames /\ [][NextFrames]_vars

\* the cached geometry and the scroll offsets of every element
Geometry(el) ==
    [e \in DOMAIN el |->
        <<el[e].LastRenderedX, el[e].LastRenderedY,
          el[e].LastRenderedWidth, el[e].LastRenderedHeight,
          el[e].LastRenderedMarginX, el[e].LastRenderedMarginY,
          el[e].LastRenderedChildWidth, el[e].LastRenderedChildHeight,
          el[e].ScrollPositionX, el[e].ScrollPositionY>>]

\* C14: after the second of two consecutive successful Render calls on the
\* root every element has the cached geometry and the scroll offsets it had
\* after the first
C14_RenderIdempotent ==
    (ret.op = "Render" /\ hist.renders >= 2 /\ hist.ok) =>
        Geometry(elems) = Geometry(hist.before)

\* C15: after a Render call on the root that failed every element has the
\* cached geometry and the scroll offsets it had before the call
C15_FailedFrameNotCommitted ==
    (ret.op = "Render" /\ ~hist.ok) =>
        Geometry(elems) = Geometry(hist.before)

(***************************************************************************)
(* The save button's handler (main lines 963-1035) given a click of button *)
(* 0: os.Create fails or not, and write number failAt of the call fails    *)
(* (0: none).  The file is the sequence of strings written to it.          *)
(***************************************************************************)
\* lines 987-996: the contents of the children of a row that have a content
RECURSIVE RowWrites(_, _)
RowWrites(el, kids) ==
    IF kids = <<>> THEN <<>>
    ELSE (IF el[Head(kids)].Content.kind = "nil" THEN <<>>
          ELSE <<el[Head(kids)].Content.Content>>)
         \o RowWrites(el, Tail(kids))

\* lines 998-1003, with one newline after every row
RowEndAlways(i, n) == <<"\n">>

\* lines 998-1003: what follows row i (0-based) of n rows
RowEnd(i, n) == IF i + 1 < n THEN <<"\n">> ELSE <<>>

\* lines 986-1004: the strings written for the rows from row i (1-based) on
RECURSIVE SaveWrites(_, _, _)
SaveWrites(el, rows, i) ==
    IF i > Len(rows) THEN <<>>
    ELSE RowWrites(el, el[rows[i]].Children) \o RowEnd(i - 1, Len(rows))
         \o SaveWrites(el, rows, i + 1)

SaveHandler(el, a, createFails, failAt) ==
    IF createFails
    THEN [created |-> FALSE, file |-> <<>>,
          message |-> "The file cannot be opened for writing"]
    ELSE \* a row child that holds an Image fails the type assertion of line 992
    IF \E y \in 1..Len(el[a].Children) :
          \E k \in 1..Len(el[el[a].Children[y]].Children) :
             el[el[el[a].Children[y]].Children[k]].Content.kind = "Image"
    THEN [created |-> TRUE, file |-> <<>>, message |-> "panic"]
    ELSE Bind(SaveWrites(el, el[a].Children, 1), LAMBDA w :
         IF failAt \in 1..Len(w)
         THEN [created |-> TRUE, file |-> SubSeq(w, 1, failAt - 1),
               message |-> "There was an error while writing to the file"]
         ELSE [created |-> TRUE, file |-> w, message |-> "File saved successfully"])

(***************************************************************************)
(* SpecKeys: the keyboard and the save button, from the empty document.    *)
(* The letters typed are those of KeyLetters, the editor makes at most     *)
(* MaxTyped elements at a time.  hist keeps the last event and the rows    *)
(* (the cursor element shown as CursorMark) and the cursor position before *)
(* it.                                                                     *)
(***************************************************************************)
KeyLetters == {"a", "b"}

CursorMark == "|"

\* the children of each row: the content of a character, CursorMark for the cursor
Marks(el, cur) ==
    [y \in 1..Len(el[4].Children) |->
        [k \in 1..Len(el[el[4].Children[y]].Children) |->
            IF el[el[4].Children[y]].Children[k] = cur.CursorElement THEN CursorMark
            ELSE el[el[el[4].Children[y]].Children[k]].Content.Content]]

Before == [marks |-> Marks(elems, cursor), X |-> cursor.X, Y |-> cursor.Y]

InitKeys ==
    /\ elems = EditorElements(MaxTyped)
    /\ cursor = [CursorElement |-> 5, X |-> 0, Y |-> 0]
    /\ selectedElement = 4
    /\ oldMouseButtonStates = NoButtons
    /\ events = <<>>
    /\ gfx = NoGfx
    /\ ret = NoRet
    /\ hist = [event |-> [event |-> "none"], before |-> Before]

Keyed(event) ==
    /\ KeyStep(event)
    /\ hist' = [event |-> event, before |-> Before]

\* the save button's handler is given Click(0)
SaveClicked(createFails, failAt) ==
    /\ ret.op # "panic"
    /\ \E r \in {SaveHandler(elems, 4, createFails, failAt)} :
          ret' = [op |-> IF r.message = "panic" THEN "panic" ELSE "Save",
                  created |-> r.created, file |-> r.file, message |-> r.message]
    /\ hist' = [event |-> MouseButtonEvent("Click", 0), before |-> Before]
    /\ UNCHANGED <<elems, cursor, selectedElement, oldMouseButtonStates, events, gfx>>

NextKeys ==
    \/ \E c \in KeyLetters : Keyed(TextEvent(c))
    \/ \E k \in KeyCodes : Keyed(KeyEvent("KEYDOWN", k))
    \/ \E cf \in BOOLEAN, f \in 0..MaxTyped : SaveClicked(cf, f)

SpecKeys == InitKeys /\ [][NextKeys]_vars

\* the characters of a row of marks
Chars(row) == SelectSeq(row, LAMBDA x : x # CursorMark)

\* rows joined by single newlines
RECURSIVE Joined(_)
Joined(rows) ==
    IF rows = <<>> THEN <<>>
    ELSE IF Len(rows) = 1 THEN Chars(rows[1])
    ELSE Chars(rows[1]) \o <<"\n">> \o Joined(Tail(rows))

\* C16: a successful save writes the characters of each row in child order
\* without the cursor element, one newline between consecutive rows and
\* none after the last; a save, successful or failed, leaves the rows,
\* their characters and the cursor position as they were
C16_SaveWritesDocument ==
    ret.op = "Save" =>
        /\ ret.message = "File saved successfully" =>
              ret.file = Joined(Marks(elems, cursor))
        /\ Marks(elems, cursor) = hist.before.marks
        /\ cursor.X = hist.before.X /\ cursor.Y = hist.before.Y

\* the rows "ab" and "b", the cursor inside the first, were written as a, b,
\* newline, b
C16_Witness ==
    /\ ret.op = "Save"
    /\ ret.message = "File saved successfully"
    /\ Marks(elems, cursor) = << <<"a", CursorMark, "b">>, <<"b">> >>
    /\ ret.file = <<"a", "b", "\n", "b">>

\* the characters of each row
CharRows(marks) == [y \in 1..Len(marks) |-> Chars(marks[y])]

\* the cursor element is the child at index cursor.X of row cursor.Y
CursorAt(x, y) ==
    /\ cursor.X = x /\ cursor.Y = y
    /\ y + 1 \in 1..Len(Marks(elems, cursor))
    /\ x + 1 \in 1..Len(Marks(elems, cursor)[y + 1])
    /\ Marks(elems, cursor)[y + 1][x + 1] = CursorMark

\* C17: a Return with the cursor at (r, c) of a row with characters s makes
\* one more row; row r holds s[0..c), row r+1 holds the cursor followed by
\* s[c..), the rows before r are as they were, the rows after r are the
\* rows that followed r, one further down, and the cursor is at (r+1, 0)
C17_NewlineSplits ==
    ret.op = "K_RETURN" =>
        LET b == hist.before
            r == hist.before.Y + 1
            c == hist.before.X
            s == Chars(hist.before.marks[hist.before.Y + 1])
            M == Marks(elems, cursor)
        IN /\ Len(M) = Len(b.marks) + 1
           /\ M[r] = SubSeq(s, 1, c)
           /\ M[r + 1] = <<CursorMark>> \o SubSeq(s, c + 1, Len(s))
           /\ \A y \in 1..(r - 1) : M[y] = b.marks[y]
           /\ \A y \in (r + 2)..Len(M) : M[y] = b.marks[y - 1]
           /\ CursorAt(0, b.Y + 1)

\* the row "ab" with the cursor between a and b, an empty row after it, was split
C17_Witness ==
    /\ ret.op = "K_RETURN"
    /\ hist.before = [marks |-> << <<"a", CursorMark, "b">>, <<>> >>, X |-> 1, Y |-> 0]
    /\ Marks(elems, cursor) = << <<"a">>, <<CursorMark, "b">>, <<>> >>

\* C18: a Backspace with the cursor at (r, c): with c > 0 the character at
\* index c-1 of row r is removed and the cursor is at (r, c-1); with c = 0
\* and r > 0 the characters of row r are appended in order to row r-1, row
\* r is removed and the cursor is at (r-1, n), n the number of characters
\* row r-1 had; at (0, 0) rows and cursor are as they were; no other row
\* changes
C18_Backspace ==
    ret.op = "K_BACKSPACE" =>
        LET b == hist.before
            r == hist.before.Y + 1
            c == hist.before.X
            B == CharRows(hist.before.marks)
            R == CharRows(Marks(elems, cursor))
        IN IF c > 0
           THEN /\ R = [B EXCEPT ![r] = SubSeq(@, 1, c - 1) \o SubSeq(@, c + 1, Len(@))]
                /\ CursorAt(c - 1, b.Y)
           ELSE IF b.Y > 0
           THEN /\ Len(R) = Len(B) - 1
                /\ R[r - 1] = B[r - 1] \o B[r]
                /\ \A y \in 1..(r - 2) : R[y] = B[y]
                /\ \A y \in r..Len(R) : R[y] = B[y + 1]
                /\ CursorAt(Len(B[r - 1]), b.Y - 1)
           ELSE /\ Marks(elems, cursor) = b.marks
                /\ CursorAt(0, 0)

\* the rows "ab" and "b" were merged from row 1, column 0
C18_Witness ==
    /\ ret.op = "K_BACKSPACE"
    /\ hist.before = [marks |-> << <<"a", "b">>, <<CursorMark, "b">> >>, X |-> 0, Y |-> 1]
    /\ Marks(elems, cursor) = << <<"a", "b", CursorMark, "b">> >>
    /\ cursor.X = 2 /\ cursor.Y = 0

\* C19: a Delete with the cursor at (r, c): the character following the
\* cursor in row r is removed if there is one; else, if row r is not the
\* last, the characters of row r+1 are appended in order to row r and row
\* r+1 is removed; else nothing changes; the cursor stays at (r, c) and no
\* other row changes
C19_Delete ==
    ret.op = "K_DELETE" =>
        LET b == hist.before
            r == hist.before.Y + 1
            c == hist.before.X
            B == CharRows(hist.before.marks)
            R == CharRows(Marks(elems, cursor))
        IN /\ CursorAt(c, b.Y)
           /\ IF c < Len(B[r])
              THEN R = [B EXCEPT ![r] = SubSeq(@, 1, c) \o SubSeq(@, c + 2, Len(@))]
              ELSE IF r < Len(B)
              THEN /\ Len(R) = Len(B) - 1
                   /\ R[r] = B[r] \o B[r + 1]
                   /\ \A y \in 1..(r - 1) : R[y] = B[y]
                   /\ \A y \in (r + 1)..Len(R) : R[y] = B[y + 1]
              ELSE Marks(elems, cursor) = b.marks

\* the rows "a" and "b" were merged from the end of row 0
C19_Witness ==
    /\ ret.op = "K_DELETE"
    /\ hist.before = [marks |-> << <<"a", CursorMark>>, <<"b">> >>, X |-> 1, Y |-> 0]
    /\ Marks(elems, cursor) = << <<"a", CursorMark, "b">> >>
    /\ cursor.X = 1 /\ cursor.Y = 0

\* C20: a byte other than backspace, delete and newline typed with the
\* cursor at (r, c) is one new character at index c of row r, the earlier
\* characters of the row in their order on either side of it; every other
\* row is as it was and the cursor is at (r, c+1)
C20_TypedCharacter ==
    ret.op = "TextEvent" =>
        LET b == hist.before
            r == hist.before.Y + 1
            c == hist.before.X
            B == CharRows(hist.before.marks)
            R == CharRows(Marks(elems, cursor))
        IN /\ R = [B EXCEPT ![r] = SubSeq(@, 1, c) \o <<hist.event.c>>
                                      \o SubSeq(@, c + 1, Len(@))]
           /\ CursorAt(c + 1, b.Y)

\* b was typed between a and b of the row "ab", below an empty row
C20_Witness ==
    /\ ret.op = "TextEvent"
    /\ hist.event = TextEvent("b")
    /\ hist.before = [marks |-> << <<>>, <<"a", CursorMark, "b">> >>, X |-> 1, Y |-> 1]
    /\ Marks(elems, cursor) = << <<>>, <<"a", "b", CursorMark, "b">> >>

\* C21: an arrow key leaves the characters of every row as they were; right
\* takes the cursor from (r, c) to (r, c+1) if c is less than the number of
\* characters of row r, else to (r+1, 0) if there is a next row, else
\* nowhere; left to (r, c-1) if c > 0, else to the end of row r-1 if r > 0,
\* else nowhere; up and down to row r-1 or r+1 if there is one, at column
\* min(c, number of characters of that row), else nowhere
C21_ArrowKeys ==
    ret.op \in {"K_RIGHT", "K_LEFT", "K_UP", "K_DOWN"} =>
        LET b == hist.before
            r == hist.before.Y + 1
            c == hist.before.X
            B == CharRows(hist.before.marks)
        IN /\ CharRows(Marks(elems, cursor)) = B
           /\ ret.op = "K_RIGHT" =>
                 IF c < Len(B[r]) THEN CursorAt(c + 1, b.Y)
                 ELSE IF r < Len(B) THEN CursorAt(0, b.Y + 1)
                 ELSE CursorAt(c, b.Y)
           /\ ret.op = "K_LEFT" =>
                 IF c > 0 THEN CursorAt(c - 1, b.Y)
                 ELSE IF b.Y > 0 THEN CursorAt(Len(B[r - 1]), b.Y - 1)
                 ELSE CursorAt(c, b.Y)
           /\ ret.op = "K_UP" =>
                 IF b.Y > 0 THEN CursorAt(Min(c, Len(B[r - 1])), b.Y - 1)
                 ELSE CursorAt(c, b.Y)
           /\ ret.op = "K_DOWN" =>
                 IF r < Len(B) THEN CursorAt(Min(c, Len(B[r + 1])), b.Y + 1)
                 ELSE CursorAt(c, b.Y)

\* Up from the end of the row "ab" took the cursor to the end of the row "a"
C21_Witness ==
    /\ ret.op = "K_UP"
    /\ hist.before = [marks |-> << <<"a">>, <<"a", "b", CursorMark>> >>, X |-> 2, Y |-> 1]
    /\ Marks(elems, cursor) = << <<"a", CursorMark>>, <<"a", "b">> >>
    /\ cursor.X = 1 /\ cursor.Y = 0

(***************************************************************************)
(* SpecClick: SpecEditor with a record of each mouse event: hist keeps     *)
(* the rows and the cursor position before the last mouse event, the       *)
(* characters the pointer was over, as (row, index among the characters    *)
(* of the row) pairs, and the rows it was over.                            *)
(***************************************************************************)
\* the (row, character index) pairs, both 0-based, of the characters in over
CharsOver(el, cur, over) ==
    {rk \in (0..(Len(el[4].Children) - 1)) \X (0..MaxEdited) :
        \E i \in 1..Len(el[el[4].Children[rk[1] + 1]].Children) :
           /\ el[el[4].Children[rk[1] + 1]].Children[i] \in over
           /\ el[el[4].Children[rk[1] + 1]].Children[i] # cur.CursorElement
           /\ rk[2] = Cardinality({j \in 1..(i - 1) :
                          el[el[4].Children[rk[1] + 1]].Children[j] # cur.CursorElement})}

\* the 0-based indices of the rows in over
RowsOver(el, over) == {r \in 0..(Len(el[4].Children) - 1) : el[4].Children[r + 1] \in over}

InitClick ==
    /\ elems = EditorElements(MaxEdited)
    /\ cursor = [CursorElement |-> 5, X |-> 0, Y |-> 0]
    /\ selectedElement = 4
    /\ oldMouseButtonStates = NoButtons
    /\ events = <<>>
    /\ gfx = NoGfx
    /\ ret = NoRet
    /\ hist = [keys |-> 0, frames |-> 0, clicks |-> 0,
               before |-> Before, chars |-> {}, rows |-> {}]

\* main lines 1069-1080: button 0 goes down or up with the pointer at (x, y)
ClickButton(x, y) ==
    /\ ret.op # "panic"
    /\ ~oldMouseButtonStates[1] => hist.clicks < MaxClicks
    /\ \E new \in {[oldMouseButtonStates EXCEPT ![1] = ~@]} :
          /\ \E ms \in {MouseUpdate(Dispatch(elems, cursor, selectedElement), 1, x, y,
                                    oldMouseButtonStates, new, TRUE)} :
                /\ elems' = Collect(Reselect(ms.el, 1, ms.selected), ms.cursor)
                /\ selectedElement' = ms.selected
                /\ cursor' = ms.cursor
                /\ hist' = [hist EXCEPT !.clicks = IF new[1] THEN @ + 1 ELSE @,
                                        !.before = Before,
                                        !.chars = CharsOver(elems, cursor, ms.over),
                                        !.rows = RowsOver(elems, ms.over)]
          /\ oldMouseButtonStates' = new
          /\ ret' = [op |-> IF new[1] THEN "ButtonDown" ELSE "ButtonUp"]
    /\ UNCHANGED <<events, gfx>>

NextClick ==
    \/ EditorKey(TextEvent("a"))
    \/ \E k \in KeyCodes : EditorKey(KeyEvent("KEYDOWN", k))
    \/ \E p \in EditorPoints : ClickButton(p[1], p[2])
    \/ EditorFrame

SpecClick == InitClick /\ [][NextClick]_vars

\* C22: a press of button 0 with the pointer over the k-th character of row
\* r puts the cursor at (r, k+1); a press with the pointer over row r and
\* over none of its characters puts it at the end of row r; the characters
\* of the rows are as they were
C22_PressMovesCursor ==
    ret.op = "ButtonDown" =>
        /\ CharRows(Marks(elems, cursor)) = CharRows(hist.before.marks)
        /\ \A rk \in hist.chars : CursorAt(rk[2] + 1, rk[1])
        /\ \A r \in hist.rows :
              (\A rk \in hist.chars : rk[1] # r)
                 => CursorAt(Len(CharRows(hist.before.marks)[r + 1]), r)

(***************************************************************************)
(* SpecBox: Render of the root (300 x 300) holding container 2, which      *)
(* holds element 3, a text or an image.  The configured sizes of 2 and 3   *)
(* are drawn from BoxSizes (fixed, fitted to the content, or a percentage  *)
(* of the parent's) and their minimums from BoxMinimums.                   *)
(***************************************************************************)
BoxSizes == {<<-1, FALSE>>, <<10, FALSE>>, <<60, FALSE>>, <<50, TRUE>>}

BoxMinimums == {0, 50}

BoxContents == {TextContent("a", FALSE), ImageContent(30, 30)}

InitBox ==
    /\ \E w \in [{2, 3} -> BoxSizes], h \in [{2, 3} -> {<<-1, FALSE>>, <<60, FALSE>>}],
          mw \in [{2, 3} -> BoxMinimums], mh \in [{2, 3} -> BoxMinimums],
          c \in BoxContents :
          elems = Grow([e \in 1..3 |->
                           IF e = 1 THEN Box(300, 300)
                           ELSE [Sized(w[e][1], w[e][2], h[e][1], h[e][2]) EXCEPT
                                    !.MinWidth = mw[e], !.MinHeight = mh[e],
                                    !.Content = IF e = 3 THEN c ELSE NoContent]],
                       [n \in 2..3 |-> n - 1], 3)
    /\ cursor = NoCursor
    /\ selectedElement = Nil
    /\ oldMouseButtonStates = NoButtons
    /\ events = <<>>
    /\ gfx = NoGfx
    /\ ret = NoRet
    /\ hist = NoHist

\* main lines 1114-1117 when nothing fails
BoxFrame ==
    /\ RenderCall(1, 0)
    /\ ret' = [op |-> "Render"]
    /\ UNCHANGED <<cursor, selectedElement, oldMouseButtonStates, events, hist>>

SpecBox == InitBox /\ [][BoxFrame]_vars

\* the size of the surface Render returned for element e to its parent
SurfaceOf(e) == <<gfx.tex[elems[e].RenderingTexture].w, gfx.tex[elems[e].RenderingTexture].h>>

\* the natural size of a content
NaturalSize(c) == IF c.kind = "Text" THEN <<GlyphW * Len(c.Content), GlyphH>> ELSE <<c.W, c.H>>

\* C23: in the content branch the surface size, also recorded as
\* LastRenderedWidth/Height, is on each axis the greater of the configured
\* minimum and the base, the base being the resolved size when that is not
\* negative and the natural size of the content otherwise
C23_ContentSize ==
    ret.op = "Render" =>
        LET real == ExpandedSize(elems, 3)
            nat == NaturalSize(elems[3].Content)
            size == <<Max(elems[3].MinWidth, IF real[1] >= 0 THEN real[1] ELSE nat[1]),
                      Max(elems[3].MinHeight, IF real[2] >= 0 THEN real[2] ELSE nat[2])>>
        IN /\ <<elems[3].LastRenderedWidth, elems[3].LastRenderedHeight>> = size
           /\ SurfaceOf(3) = size

\* C24: in the children branch the surface size, also recorded as
\* LastRenderedWidth/Height, is on each axis the resolved size when the
\* configured size is not negative and the extent of the placed children
\* otherwise, raised to the configured minimum when smaller
C24_ContainerSize ==
    ret.op = "Render" =>
        LET real == ExpandedSize(elems, 2)
            size == <<Max(elems[2].MinWidth,
                          IF elems[2].Width >= 0 THEN real[1]
                          ELSE elems[2].LastRenderedChildWidth),
                      Max(elems[2].MinHeight,
                          IF elems[2].Height >= 0 THEN real[2]
                          ELSE elems[2].LastRenderedChildHeight)>>
        IN /\ <<elems[2].LastRenderedWidth, elems[2].LastRenderedHeight>> = size
           /\ SurfaceOf(2) = size

(***************************************************************************)
(* SpecFlow: Render of a container of width 100, horizontally scrollable   *)
(* or not, with zero scroll offsets, holding MaxKids empty boxes.  Each    *)
(* box has a width of FlowWidths, a horizontal margin of FlowMargins and   *)
(* is inline or not, breaking or not; heights and vertical margins go by   *)
(* the position of the box.                                                *)
(***************************************************************************)
FlowWidths == {40, 60}

FlowMargins == {0, 10}

FlowKid(k, w, m, inline, breaking) ==
    [Sized(w, FALSE, IF k % 2 = 0 THEN 10 ELSE 20, FALSE) EXCEPT
        !.MarginX = m, !.MarginY = IF k = 3 THEN 5 ELSE 0,
        !.Inline = inline, !.Breaking = breaking]

InitFlow ==
    /\ \E sx \in BOOLEAN,
          w \in [2..(MaxKids + 1) -> FlowWidths], m \in [2..(MaxKids + 1) -> FlowMargins],
          il \in [2..(MaxKids + 1) -> BOOLEAN], br \in [2..(MaxKids + 1) -> BOOLEAN] :
          elems = Star([e \in 1..(MaxKids + 1) |->
                           IF e = 1 THEN [Sized(100, FALSE, -1, FALSE) EXCEPT !.ScrollX = sx]
                           ELSE FlowKid(e, w[e], m[e], il[e], br[e])],
                       MaxKids + 1)
    /\ cursor = NoCursor
    /\ selectedElement = Nil
    /\ oldMouseButtonStates = NoButtons
    /\ events = <<>>
    /\ gfx = NoGfx
    /\ ret = NoRet
    /\ hist = NoHist

\* main lines 1114-1117 when nothing fails
FlowFrame ==
    /\ RenderCall(1, 0)
    /\ ret' = [op |-> "Render"]
    /\ UNCHANGED <<cursor, selectedElement, oldMouseButtonStates, events, hist>>

SpecFlow == InitFlow /\ [][FlowFrame]_vars

KidMX(i) == elems[elems[1].Children[i]].LastRenderedMarginX

KidMY(i) == elems[elems[1].Children[i]].LastRenderedMarginY

\* child i is the first of its line: it lies at x = 0 plus its margin
StartedLine(i) == i = 1 \/ KidX(i) - KidMX(i) = 0

\* the first child of the line child i lies on
LineFirst(i) == CHOOSE k \in 1..i : StartedLine(k) /\ \A q \in (k + 1)..i : ~StartedLine(q)

\* the height of the line of child i up to child i
LineHeightUpTo(i) ==
    CHOOSE h \in {KidH(q) + KidMY(q) : q \in LineFirst(i)..i} :
        \A q \in LineFirst(i)..i : KidH(q) + KidMY(q) <= h

\* where the line goes on after child i - 1
RunningX(i) == KidX(i - 1) + KidW(i - 1)

C26_NoOverlap ==
    ret.op = "Render" =>
        \A i \in 1..Len(elems[1].Children) : \A j \in (i + 1)..Len(elems[1].Children) :
            ~ /\ KidX(i) < KidX(j) + KidW(j) /\ KidX(j) < KidX(i) + KidW(i)
              /\ KidY(i) < KidY(j) + KidH(j) /\ KidY(j) < KidY(i) + KidH(i)

(***************************************************************************)
(* SpecPass: mouse events and frames on the tree of SpecMouse, each        *)
(* element with two recording handlers, TagHandler(1) registered before    *)
(* TagHandler(2): the root (1, 200 x 200) holds element 2 (100 x 100,      *)
(* holding element 3, 50 x 50) and element 4 (60 x 60).  MaxMoves events   *)
(* are followed.  events holds what the handlers were given in the last    *)
(* pass, in order.  hist keeps for the last pass the pointer (point), the  *)
(* elements that were hovering before it (was), the last hover event each  *)
(* element had been given before it (prev) and has been given now (last);  *)
(* for each button the elements that were given ButtonDown when it went    *)
(* down and that the pointer has been over in every pass since (latch),    *)
(* those of them it has not been over in some pass since (left); the       *)
(* buttons that went up in the pass (up) and the elements the pointer was  *)
(* over (over).                                                            *)
(***************************************************************************)
MaxMoves == 4

Tagged(w, h) == [Box(w, h) EXCEPT !.EventHandlers = <<TagHandler(1), TagHandler(2)>>]

\* element e was given the event in the sequence evs
Got(evs, e, ev) == \E i \in 1..Len(evs) : evs[i].e = e /\ evs[i].ev = ev

InitPass ==
    /\ elems = Grow([e \in MouseElems |->
                        IF e = 1 THEN Tagged(200, 200)
                        ELSE IF e = 2 THEN Tagged(100, 100)
                        ELSE IF e = 3 THEN Tagged(50, 50)
                        ELSE Tagged(60, 60)],
                    [n \in 2..4 |-> IF n = 3 THEN 2 ELSE 1], 4)
    /\ selectedElement = Nil
    /\ cursor = NoCursor
    /\ oldMouseButtonStates = NoButtons
    /\ events = <<>>
    /\ gfx = NoGfx
    /\ ret = NoRet
    /\ hist = [passes |-> 0, point |-> <<0, 0>>, was |-> {},
               prev |-> [e \in MouseElems |-> "none"],
               last |-> [e \in MouseElems |-> "none"],
               latch |-> [b \in Buttons |-> {}], left |-> [b \in Buttons |-> {}],
               up |-> {}, over |-> {}]

\* main lines 1069-1080: a mouse motion or button event
PassEvent(x, y, new) ==
    /\ hist.passes < MaxMoves
    /\ \E ms \in {MouseUpdate(Dispatch(elems, cursor, selectedElement), 1, x, y,
                              oldMouseButtonStates, new, TRUE)} :
          /\ elems' = Reselect(ms.el, 1, ms.selected)
          /\ selectedElement' = ms.selected
          /\ cursor' = ms.cursor
          /\ events' = ms.events
          /\ hist' =
                [passes |-> hist.passes + 1,
                 point |-> <<x, y>>,
                 was |-> {e \in MouseElems : elems[e].MouseHovering},
                 prev |-> hist.last,
                 last |-> [e \in MouseElems |->
                              IF Got(ms.events, e, MouseHoverEvent(TRUE)) THEN "start"
                              ELSE IF Got(ms.events, e, MouseHoverEvent(FALSE)) THEN "end"
                              ELSE hist.last[e]],
                 latch |-> [b \in Buttons |->
                              IF ~oldMouseButtonStates[b + 1] /\ new[b + 1]
                              THEN {e \in MouseElems :
                                       Got(ms.events, e, MouseButtonEvent("Down", b))}
                              ELSE IF oldMouseButtonStates[b + 1]
                              THEN hist.latch[b] \cap ms.over
                              ELSE {}],
                 left |-> [b \in Buttons |->
                              IF ~oldMouseButtonStates[b + 1] /\ new[b + 1] THEN {}
                              ELSE IF oldMouseButtonStates[b + 1]
                              THEN hist.left[b] \cup (hist.latch[b] \ ms.over)
                              ELSE {}],
                 up |-> {b \in Buttons : oldMouseButtonStates[b + 1] /\ ~new[b + 1]},
                 over |-> ms.over]
    /\ oldMouseButtonStates' = new
    /\ ret' = [op |-> "MouseUpdate"]
    /\ UNCHANGED gfx

\* main lines 1114-1126 when nothing fails
PassFrame ==
    /\ ret.op # "Render"
    /\ \E r \in {Render(RenderState(elems, 0), 1)} : elems' = r.st.el
    /\ ret' = [op |-> "Render"]
    /\ UNCHANGED <<cursor, selectedElement, oldMouseButtonStates, events, gfx, hist>>

NextPass ==
    \/ \E p \in MousePoints, new \in NextButtonStates(oldMouseButtonStates) :
          PassEvent(p[1], p[2], new)
    \/ PassFrame

SpecPass == InitPass /\ [][NextPass]_vars

\* the point of the window in the coordinates of element e's surface
RECURSIVE Within(_, _)
Within(e, p) ==
    IF elems[e].Parent = Nil THEN p
    ELSE <<Within(elems[e].Parent, p)[1] - elems[e].LastRenderedX,
           Within(elems[e].Parent, p)[2] - elems[e].LastRenderedY>>

\* the point lies inside the cached rectangle of e and of every ancestor of
\* e below the root
RECURSIVE Inside(_, _)
Inside(e, p) ==
    \/ elems[e].Parent = Nil
    \/ /\ Inside(elems[e].Parent, p)
       /\ 0 <= Within(e, p)[1] /\ Within(e, p)[1] < elems[e].LastRenderedWidth
       /\ 0 <= Within(e, p)[2] /\ Within(e, p)[2] < elems[e].LastRenderedHeight

\* C27: after a pass an element is hovering exactly when the pointer lies
\* inside its cached rectangle and that of every ancestor below the root
\* (the root, which has no rectangle to be inside of, always); it is given
\* HoverStart exactly in the passes where this goes from false to true and
\* HoverEnd exactly where it goes from true to false, so that the two
\* alternate, HoverStart first; a hovering child has a hovering parent
C27_Hover ==
    ret.op = "MouseUpdate" =>
        \A e \in MouseElems :
            /\ elems[e].MouseHovering <=> Inside(e, hist.point)
            /\ Got(events, e, MouseHoverEvent(TRUE))
                  <=> (e \notin hist.was /\ elems[e].MouseHovering)
            /\ Got(events, e, MouseHoverEvent(FALSE))
                  <=> (e \in hist.was /\ ~elems[e].MouseHovering)
            /\ Got(events, e, MouseHoverEvent(TRUE)) => hist.prev[e] \in {"none", "end"}
            /\ Got(events, e, MouseHoverEvent(FALSE)) => hist.prev[e] = "start"
            /\ (elems[e].MouseHovering /\ elems[e].Parent # Nil)
                  => elems[elems[e].Parent].MouseHovering

\* the pointer has come back over element 3 after leaving it: HoverStart
\* after HoverEnd
C27_Witness ==
    /\ ret.op = "MouseUpdate"
    /\ hist.prev[3] = "end"
    /\ Got(events, 3, MouseHoverEvent(TRUE))
    /\ elems[3].MouseHovering /\ elems[2].MouseHovering
    /\ ~elems[4].MouseHovering

\* C28: an element is given Click(b) only in a pass in which b goes up, if
\* it was given ButtonDown(b) when b went down and the pointer has been
\* over it in every pass since; an element that was given ButtonDown(b),
\* that the pointer has left and come back to before b goes up over it, is
\* given ButtonUp(b) and no Click(b)
C28_ClickLatch ==
    ret.op = "MouseUpdate" =>
        \A b \in Buttons : \A e \in MouseElems :
            /\ Got(events, e, MouseButtonEvent("Click", b))
                  => (b \in hist.up /\ e \in hist.latch[b])
            /\ (b \in hist.up /\ e \in hist.left[b] /\ e \in hist.over)
                  => /\ Got(events, e, MouseButtonEvent("Up", b))
                     /\ ~Got(events, e, MouseButtonEvent("Click", b))

\* button 0 went down over element 3, the pointer left element 3 and came
\* back, and the button went up over it
C28_Witness ==
    /\ ret.op = "MouseUpdate"
    /\ 0 \in hist.up
    /\ 3 \in hist.left[0] /\ 3 \in hist.over
    /\ 2 \in hist.latch[0]
    /\ Got(events, 3, MouseButtonEvent("Up", 0))
    /\ Got(events, 2, MouseButtonEvent("Click", 0))

\* element d lies below element a
RECURSIVE Under(_, _)
Under(d, a) == elems[d].Parent # Nil /\ (elems[d].Parent = a \/ Under(elems[d].Parent, a))

\* C29: in a pass no event is given to an element after an event was given
\* to one of its descendants; every event is given to the first registered
\* handler of an element and right after to the second; ButtonUp(b) is
\* given to an element before Click(b)
C29_DispatchOrder ==
    ret.op = "MouseUpdate" =>
        /\ \A i \in 1..Len(events) : \A j \in (i + 1)..Len(events) :
              ~Under(events[i].e, events[j].e)
        /\ \A i \in 1..Len(events) :
              IF events[i].h = 1
              THEN /\ i < Len(events)
                   /\ events[i + 1] = [events[i] EXCEPT !.h = 2]
              ELSE /\ i > 1
                   /\ events[i - 1] = [events[i] EXCEPT !.h = 1]
        /\ \A i \in 1..Len(events) : \A j \in 1..Len(events) :
              (/\ events[i].e = events[j].e
               /\ events[i].ev.event = "MouseButtonEvent"
               /\ events[j].ev.event = "MouseButtonEvent"
               /\ events[i].ev.Type = "Up" /\ events[j].ev.Type = "Click"
               /\ events[i].ev.Button = events[j].ev.Button) => i < j

\* a button pressed over elements 1, 2 and 3 went up over them in the pass
\* that took the pointer to them again: each is given ButtonUp and Click
C29_Witness ==
    /\ ret.op = "MouseUpdate"
    /\ 0 \in hist.up
    /\ {1, 2, 3} \subseteq hist.latch[0]
    /\ \A e \in {1, 2, 3} : Got(events, e, MouseButtonEvent("Click", 0))
    /\ Len(events) = 12

(***************************************************************************)
(* SpecNest: wheel events and frames on the nested containers of           *)
(* SpecScroll, the outer one (2, 150 x 100) placed with a horizontal       *)
(* margin of NestMargins in the root: it holds container 3 (80 x 80,       *)
(* holding box 5, 120 x 120) and box 4.  The scroll flags of both          *)
(* containers are drawn.  The wheel deltas are the small ones; the history *)
(* keeps the pointer and the delta of the last wheel event and the tree it *)
(* found, until the next frame.                                            *)
(***************************************************************************)
NestMargins == {0, 50}

NestDeltas == (-MaxDelta)..MaxDelta

\* the pointer of a wheel event: left of the margin, on container 3, on box 4
\* and right of container 2; above and below the bottom edge of container 3
NestXs == {10, 60, 140, 250}

NestYs == {10, 90}

\* the height of box 4: less than, equal to and more than that of container 2
NestHeights == {60, 100, 130}

InitNest ==
    /\ \E f \in [{2, 3} -> BOOLEAN \X BOOLEAN], m \in NestMargins, h \in NestHeights :
          elems = Grow([e \in 1..5 |->
                           IF e = 1 THEN Box(300, 300)
                           ELSE IF e = 2
                           THEN [ScrollBox(150, 100, f[2][1], f[2][2]) EXCEPT !.MarginX = m]
                           ELSE IF e = 3 THEN ScrollBox(80, 80, f[3][1], f[3][2])
                           ELSE IF e = 4 THEN Box(70, h)
                           ELSE Box(120, 120)],
                       [n \in 2..5 |-> IF n = 2 THEN 1 ELSE IF n = 5 THEN 3 ELSE 2], 5)
    /\ cursor = NoCursor
    /\ selectedElement = Nil
    /\ oldMouseButtonStates = NoButtons
    /\ events = <<>>
    /\ gfx = NoGfx
    /\ ret = NoRet
    /\ hist = [wheels |-> 0, point |-> <<0, 0>>, delta |-> <<0, 0>>, before |-> <<>>]

\* main lines 1081-1084: a wheel event
NestWheel(mouseX, mouseY, scrollX, scrollY) ==
    /\ hist.wheels < MaxWheels
    /\ \E r \in {Scroll(elems, 1, mouseX, mouseY, scrollX, scrollY)} :
          /\ elems' = r.el
          /\ ret' = [op |-> "Scroll", scrolled |-> r.scrolled]
    /\ hist' = [wheels |-> hist.wheels + 1, point |-> <<mouseX, mouseY>>,
                delta |-> <<scrollX, scrollY>>, before |-> elems]
    /\ UNCHANGED <<cursor, selectedElement, oldMouseButtonStates, events, gfx>>

\* main lines 1114-1126 when nothing fails: render the root, present, destroy the texture
NestFrame ==
    /\ ret.op # "Render"
    /\ \E r \in {Render(RenderState(elems, 0), 1)} : elems' = r.st.el
    /\ ret' = [op |-> "Render"]
    /\ hist' = [hist EXCEPT !.point = <<0, 0>>, !.delta = <<0, 0>>, !.before = <<>>]
    /\ UNCHANGED <<cursor, selectedElement, oldMouseButtonStates, events, gfx>>

NextNest ==
    \/ \E x \in NestXs, y \in NestYs, dx \in NestDeltas, dy \in NestDeltas :
          NestWheel(x, y, dx, dy)
    \/ NestFrame

SpecNest == InitNest /\ [][NextNest]_vars

\* the window position of the cached rectangle of e in the tree el: the
\* cached positions of e and of its ancestors added up
RECURSIVE WindowAt(_, _)
WindowAt(el, e) ==
    IF el[e].Parent = Nil THEN <<el[e].LastRenderedX, el[e].LastRenderedY>>
    ELSE <<WindowAt(el, el[e].Parent)[1] + el[e].LastRenderedX,
           WindowAt(el, el[e].Parent)[2] + el[e].LastRenderedY>>

\* the point p of the window lies on e: inside the cached rectangle of e and
\* of every ancestor of e
RECURSIVE Shown(_, _, _)
Shown(el, e, p) ==
    /\ el[e].Parent # Nil => Shown(el, el[e].Parent, p)
    /\ WindowAt(el, e)[1] <= p[1] /\ p[1] < WindowAt(el, e)[1] + el[e].LastRenderedWidth
    /\ WindowAt(el, e)[2] <= p[2] /\ p[2] < WindowAt(el, e)[2] + el[e].LastRenderedHeight

\* e is a container under the point p with more content than view on an
\* axis it scrolls on
Qualifies(el, e, p) ==
    /\ el[e].Content.kind = "nil"
    /\ Shown(el, e, p)
    /\ \/ el[e].ScrollX /\ el[e].LastRenderedChildWidth > el[e].LastRenderedWidth
       \/ el[e].ScrollY /\ el[e].LastRenderedChildHeight > el[e].LastRenderedHeight

\* the first qualifying container of the tree under e, children before
\* their parent and in child order; Nil when there is none
RECURSIVE Deepest(_, _, _)
RECURSIVE DeepestOf(_, _, _, _)
DeepestOf(el, kids, i, p) ==
    IF i > Len(kids) THEN Nil
    ELSE IF Deepest(el, kids[i], p) # Nil THEN Deepest(el, kids[i], p)
    ELSE DeepestOf(el, kids, i + 1, p)

Deepest(el, e, p) ==
    IF DeepestOf(el, el[e].Children, 1, p) # Nil THEN DeepestOf(el, el[e].Children, 1, p)
    ELSE IF Qualifies(el, e, p) THEN e
    ELSE Nil

\* the elements whose scroll offsets the last wheel event changed
Moved ==
    {e \in DOMAIN elems :
        \/ elems[e].ScrollPositionX # hist.before[e].ScrollPositionX
        \/ elems[e].ScrollPositionY # hist.before[e].ScrollPositionY}

\* C30: a wheel event changes the scroll offsets of at most one element, and
\* that element is the deepest container under the pointer that has more
\* content than view on an axis it scrolls on, children being tried before
\* their parent and in child order
C30_DeepestScrolls ==
    ret.op = "Scroll" =>
        /\ Cardinality(Moved) <= 1
        /\ \A e \in Moved : e = Deepest(hist.before, 1, hist.point)

\* the element at which the call Scroll on e returns true without a child's
\* call having returned true (lines 496-500 and 546); Nil when the call
\* returns false
RECURSIVE ScrollAt(_, _, _, _, _, _)
ScrollAt(el, e, mouseX, mouseY, scrollX, scrollY) ==
    IF ~Scroll(el, e, mouseX, mouseY, scrollX, scrollY).scrolled THEN Nil
    ELSE IF \E i \in 1..Len(el[e].Children) :
                Scroll(el, el[e].Children[i], mouseX, mouseY, scrollX, scrollY).scrolled
    THEN ScrollAt(el,
                  el[e].Children[CHOOSE i \in 1..Len(el[e].Children) :
                      /\ Scroll(el, el[e].Children[i], mouseX, mouseY, scrollX, scrollY).scrolled
                      /\ \A j \in 1..(i - 1) :
                            ~Scroll(el, el[e].Children[j], mouseX, mouseY,
                                    scrollX, scrollY).scrolled],
                  mouseX, mouseY, scrollX, scrollY)
    ELSE e

\* the element that consumed the delta of the last wheel event
Consumer ==
    ScrollAt(hist.before, 1, hist.point[1], hist.point[2], hist.delta[1], hist.delta[2])

\* the element record c has more content than view on an axis it scrolls on
MoreThanView(c) ==
    \/ c.ScrollX /\ c.LastRenderedChildWidth > c.LastRenderedWidth
    \/ c.ScrollY /\ c.LastRenderedChildHeight > c.LastRenderedHeight

\* C31: the element that consumes the delta of a wheel event has no Content,
\* has the pointer inside its cached rectangle and has, on an axis it
\* scrolls on, a cached content extent greater than its cached view extent
C31_ConsumesOnlyOverflowing ==
    ret.op = "Scroll" /\ Consumer # Nil =>
        /\ hist.before[Consumer].Content.kind = "nil"
        /\ inBox(hist.point[1], hist.point[2],
                 hist.before[Consumer].LastRenderedX, hist.before[Consumer].LastRenderedY,
                 hist.before[Consumer].LastRenderedWidth,
                 hist.before[Consumer].LastRenderedHeight)
        /\ MoreThanView(hist.before[Consumer])

\* Element.Locate: the position of e in the window, the cached positions of
\* e and of its ancestors below the root added up
RECURSIVE Locate(_, _)
Locate(el, e) ==
    IF el[e].Parent # Nil
    THEN <<Add32(el[e].LastRenderedX, Locate(el, el[e].Parent)[1]),
           Add32(el[e].LastRenderedY, Locate(el, el[e].Parent)[2])>>
    ELSE <<0, 0>>

\* the point p of the window lies inside the absolute rectangle of e
InAbsolute(el, e, p) ==
    inBox(p[1], p[2], Locate(el, e)[1], Locate(el, e)[2],
          el[e].LastRenderedWidth, el[e].LastRenderedHeight)

\* C32: an element whose scroll offsets a wheel event changes, or which
\* consumes its delta, has the pointer of the event inside its absolute
\* rectangle: origin Locate(), size LastRenderedWidth x LastRenderedHeight
C32_ScrollHitsAbsolute ==
    ret.op = "Scroll" =>
        \A e \in (Moved \cup {Consumer}) \ {Nil} : InAbsolute(hist.before, e, hist.point)

\* the delta that Scroll applies to the horizontal axis of the element
\* record c (lines 508-510): the vertical one unless c scrolls vertically and
\* has more content than view there
HorizontalDelta(c, delta) ==
    IF ~c.ScrollY \/ c.LastRenderedHeight >= c.LastRenderedChildHeight
    THEN delta[2] ELSE delta[1]

\* the call Scroll of the last wheel event came to the loop of e with the
\* pointer on e: no element before e consumed the delta, e has no Content and
\* the pointer is inside its rectangle, as Scroll tests it and in the window
CameTo(e) ==
    /\ Consumer = Nil \/ Consumer = e \/ Under(e, Consumer)
    /\ hist.before[e].Content.kind = "nil"
    /\ InAbsolute(hist.before, e, hist.point)
    /\ inBox(hist.point[1], hist.point[2],
             hist.before[e].LastRenderedX, hist.before[e].LastRenderedY,
             hist.before[e].LastRenderedWidth, hist.before[e].LastRenderedHeight)

\* C33: when a wheel event comes to an element that scrolls horizontally and
\* has more content width than width, with a delta toward larger offsets,
\* its ScrollPositionX grows by 60 for each unit of the delta, up to the
\* content width less the width
C33_HorizontalScrolls ==
    ret.op = "Scroll" =>
        \A e \in DOMAIN elems :
            /\ CameTo(e)
            /\ hist.before[e].ScrollX
            /\ hist.before[e].LastRenderedChildWidth > hist.before[e].LastRenderedWidth
            /\ hist.before[e].ScrollPositionX >= 0
            /\ hist.delta[1] < 0
            /\ HorizontalDelta(hist.before[e], hist.delta) < 0
            => elems[e].ScrollPositionX
                  = Min(hist.before[e].ScrollPositionX
                           - 60 * HorizontalDelta(hist.before[e], hist.delta),
                        hist.before[e].LastRenderedChildWidth
                           - hist.before[e].LastRenderedWidth)

(***************************************************************************)
(* SpecLoad: main gives the bytes of the file to writeChar one by one      *)
(* (lines 1039-1041) and the save button is clicked right after.  The file *)
(* has at most MaxLoad bytes, each one of LoadBytes: a letter, a newline,  *)
(* a backspace, a delete and a byte above 0x7F.  hist keeps the bytes      *)
(* loaded.                                                                 *)
(***************************************************************************)
MaxLoad == 4

LoadBytes == {"a", "\\n", "\\b", "\\x7F", "\\xE9"}

InitLoad ==
    /\ elems = EditorElements(MaxLoad)
    /\ cursor = [CursorElement |-> 5, X |-> 0, Y |-> 0]
    /\ selectedElement = 4
    /\ oldMouseButtonStates = NoButtons
    /\ events = <<>>
    /\ gfx = NoGfx
    /\ ret = NoRet
    /\ hist = [loaded |-> <<>>]

\* main lines 1039-1041: one turn of the loop over the bytes of the file
LoadByte(c) ==
    /\ ret.op \in {"none", "Load"}
    /\ Len(hist.loaded) < MaxLoad
    /\ \E ms \in {writeChar(Dispatch(elems, cursor, selectedElement), 4, c)} :
          /\ elems' = Collect(ms.el, ms.cursor)
          /\ cursor' = ms.cursor
          /\ ret' = [op |-> IF ms.panic THEN "panic" ELSE "Load"]
    /\ hist' = [loaded |-> Append(hist.loaded, c)]
    /\ UNCHANGED <<selectedElement, oldMouseButtonStates, events, gfx>>

\* the save button's handler is given Click(0) and no write fails
LoadSave ==
    /\ ret.op \in {"none", "Load"}
    /\ \E r \in {SaveHandler(elems, 4, FALSE, 0)} :
          ret' = [op |-> IF r.message = "panic" THEN "panic" ELSE "Save",
                  created |-> r.created, file |-> r.file, message |-> r.message]
    /\ UNCHANGED <<elems, cursor, selectedElement, oldMouseButtonStates, events, gfx, hist>>

NextLoad ==
    \/ \E c \in LoadBytes : LoadByte(c)
    \/ LoadSave

SpecLoad == InitLoad /\ [][NextLoad]_vars

\* the bytes of a string written to the file
BytesOf(str) ==
    IF str = "\n" THEN <<"\\n">>
    ELSE IF str = "U+00E9" THEN <<"\\xC3", "\\xA9">>
    ELSE <<str>>

\* the bytes of the file: those of the strings written, in order
RECURSIVE FileBytes(_)
FileBytes(file) == IF file = <<>> THEN <<>> ELSE BytesOf(Head(file)) \o FileBytes(Tail(file))

\* C34: the bytes that a save right after the load writes are the bytes
\* that were loaded
C34_LoadSaveIdentity ==
    ret.op = "Save" => FileBytes(ret.file) = hist.loaded

====
